---- MODULE Spec2Model ----
(***************************************************************************)
(* A model of the trading journal's analysis code: the streak tracker      *)
(* (hooks/useTradeCycleTracker), the offline analysis engine                *)
(* (utils/offlineAnalysis.ts), the enrichment service                       *)
(* (services/geminiService, src/unnamed/part_017) and the orchestrating     *)
(* handler handleAnalyze of components/AIAnalysisView.tsx.                  *)
(***************************************************************************)
EXTENDS Integers, Sequences, FiniteSets, TLC

(***************************************************************************)
(* NUMBERS.  A JavaScript number is an IEEE-754 binary64.  The P&L values   *)
(* of the model are small integers, so sums and counts are exact and are    *)
(* kept as TLA+ integers; every division, and every product or sum that     *)
(* involves a non-integer, is carried out on a binary64 value with          *)
(* round-to-nearest-even, as the hardware does.  A mantissa has 53 bits,    *)
(* more than a TLC integer holds, so it is a natural number written as a    *)
(* little-endian sequence of 15-bit limbs (<<>> is zero, no leading zero    *)
(* limb).  All values of the model are far from the subnormal and overflow  *)
(* ranges, which are not modelled; zero carries no sign.                    *)
(***************************************************************************)
LimbBase == 2^15

Max(a, b) == IF a > b THEN a ELSE b
Min(a, b) == IF a < b THEN a ELSE b

RECURSIVE IntBitLen(_)
IntBitLen(n) == IF n = 0 THEN 0 ELSE 1 + IntBitLen(n \div 2)

LimbBits == IntBitLen(LimbBase) - 1

RECURSIVE BigTrim(_)
BigTrim(a) ==
    IF a = <<>> THEN <<>>
    ELSE IF a[Len(a)] = 0 THEN BigTrim(SubSeq(a, 1, Len(a) - 1)) ELSE a

RECURSIVE BigFromInt(_)
BigFromInt(n) ==
    IF n = 0 THEN <<>> ELSE <<n % LimbBase>> \o BigFromInt(n \div LimbBase)

RECURSIVE BigToInt(_)
BigToInt(a) ==
    IF a = <<>> THEN 0 ELSE a[1] + LimbBase * BigToInt(Tail(a))

Limb(a, i) == IF i <= Len(a) THEN a[i] ELSE 0

RECURSIVE BigAddC(_, _, _, _)
BigAddC(a, b, i, c) ==
    IF i > Len(a) /\ i > Len(b) THEN (IF c = 0 THEN <<>> ELSE <<c>>)
    ELSE <<(Limb(a, i) + Limb(b, i) + c) % LimbBase>>
             \o BigAddC(a, b, i + 1, (Limb(a, i) + Limb(b, i) + c) \div LimbBase)

BigAdd(a, b) == BigAddC(a, b, 1, 0)

RECURSIVE BigSubC(_, _, _, _)
BigSubC(a, b, i, borrow) ==
    IF i > Len(a) THEN <<>>
    ELSE IF Limb(a, i) - Limb(b, i) - borrow < 0
    THEN <<Limb(a, i) - Limb(b, i) - borrow + LimbBase>> \o BigSubC(a, b, i + 1, 1)
    ELSE <<Limb(a, i) - Limb(b, i) - borrow>> \o BigSubC(a, b, i + 1, 0)

\* a - b for a >= b
BigSub(a, b) == BigTrim(BigSubC(a, b, 1, 0))

RECURSIVE BigCmpAt(_, _, _)
BigCmpAt(a, b, i) ==
    IF i = 0 THEN 0
    ELSE IF a[i] # b[i] THEN (IF a[i] < b[i] THEN -1 ELSE 1)
    ELSE BigCmpAt(a, b, i - 1)

\* -1, 0 or 1 as a < b, a = b, a > b
BigCmp(a, b) ==
    IF Len(a) # Len(b) THEN (IF Len(a) < Len(b) THEN -1 ELSE 1)
    ELSE BigCmpAt(a, b, Len(a))

RECURSIVE BigMulSmallC(_, _, _, _)
BigMulSmallC(a, k, i, c) ==
    IF i > Len(a) THEN BigFromInt(c)
    ELSE <<(a[i] * k + c) % LimbBase>>
             \o BigMulSmallC(a, k, i + 1, (a[i] * k + c) \div LimbBase)

\* a * k for 0 <= k < LimbBase
BigMulSmall(a, k) == IF k = 0 THEN <<>> ELSE BigMulSmallC(a, k, 1, 0)

BigShiftLimbs(a, q) == IF a = <<>> THEN <<>> ELSE [i \in 1..q |-> 0] \o a

RECURSIVE BigMulAt(_, _, _)
BigMulAt(a, b, i) ==
    IF i > Len(b) THEN <<>>
    ELSE BigAdd(BigMulSmall(a, b[i]), BigShiftLimbs(BigMulAt(a, b, i + 1), 1))

BigMul(a, b) == BigMulAt(a, b, 1)

\* short division from limb i down, with the remainder r carried in and the
\* quotient limbs found so far in q
RECURSIVE BigDivSmallAt(_, _, _, _, _)
BigDivSmallAt(a, d, i, r, q) ==
    IF i = 0 THEN [q |-> BigTrim(q), r |-> r]
    ELSE BigDivSmallAt(a, d, i - 1, (r * LimbBase + a[i]) % d,
                       <<(r * LimbBase + a[i]) \div d>> \o q)

\* quotient and remainder of a by d, 0 < d <= LimbBase
BigDivSmall(a, d) == BigDivSmallAt(a, d, Len(a), 0, <<>>)

\* a * 2^s
BigShl(a, s) == BigShiftLimbs(BigMulSmall(a, 2^(s % LimbBits)), s \div LimbBits)

\* floor(a / 2^s)
BigShr(a, s) ==
    IF s \div LimbBits >= Len(a) THEN <<>>
    ELSE BigDivSmall(SubSeq(a, s \div LimbBits + 1, Len(a)), 2^(s % LimbBits)).q

BigBitLen(a) ==
    IF a = <<>> THEN 0 ELSE (Len(a) - 1) * LimbBits + IntBitLen(a[Len(a)])

BigOdd(a) == a # <<>> /\ a[1] % 2 = 1

Zero == [cls |-> "fin", neg |-> FALSE, m |-> <<>>, e |-> 0]
Infinity == [cls |-> "inf", neg |-> FALSE, m |-> <<>>, e |-> 0]
NaN == [cls |-> "nan", neg |-> FALSE, m |-> <<>>, e |-> 0]

\* the bits of a binary64 mantissa: 52 stored and the implicit leading one
MantBits == 52 + 1

\* The binary64 nearest to big * 2^e (plus a non-zero amount below the last
\* bit of big when sticky), ties to the even mantissa.
\* (The steps are operators of their own, each taking what the step before
\* it computed.)
Finite(neg, m, e) == [cls |-> "fin", neg |-> neg, m |-> m, e |-> e]

\* the rounded mantissa m1, renormalised when rounding up carried out of it
RoundCarry(neg, m1, e) ==
    IF BigBitLen(m1) > MantBits THEN Finite(neg, BigShr(m1, 1), e + 1)
    ELSE Finite(neg, m1, e)

\* q rounded by c, the comparison of the bits dropped with half a unit
RoundTies(q, c, sticky) ==
    IF c > 0 \/ (c = 0 /\ (sticky \/ BigOdd(q))) THEN BigAdd(q, <<1>>) ELSE q

\* q is big without its lowest s bits
RoundDropped(neg, big, e, sticky, s, q) ==
    RoundCarry(neg,
               RoundTies(q, BigCmp(BigSub(big, BigShl(q, s)), BigShl(<<1>>, s - 1)),
                         sticky),
               e + s)

RoundBits(neg, big, e, sticky, len) ==
    IF big = <<>> THEN Zero
    ELSE IF len <= MantBits
    THEN Finite(neg, BigShl(big, MantBits - len), e - (MantBits - len))
    ELSE RoundDropped(neg, big, e, sticky, len - MantBits,
                      BigShr(big, len - MantBits))

RoundToDouble(neg, big, e, sticky) ==
    RoundBits(neg, big, e, sticky, BigBitLen(big))

Abs(n) == IF n < 0 THEN -n ELSE n

\* an integer as a number
FromInt(n) == RoundToDouble(n < 0, BigFromInt(Abs(n)), 0, FALSE)

IsZero(x) == x.cls = "fin" /\ x.m = <<>>
IsFinite(x) == x.cls = "fin"
IsNaN(x) == x.cls = "nan"

FNeg(x) == IF x.cls = "nan" \/ IsZero(x) THEN x ELSE [x EXCEPT !.neg = ~x.neg]
FAbs(x) == [x EXCEPT !.neg = FALSE]

\* a / b for integers a and b, as JavaScript divides two integer-valued
\* numbers: 0/0 is NaN, x/0 is an infinity.
DivGuardBits == LimbBits * 5
RoundQuotient(neg, d, e) == RoundToDouble(neg, d.q, e, d.r # 0)
FDivInt(a, b) ==
    IF b = 0 THEN (IF a = 0 THEN NaN ELSE [Infinity EXCEPT !.neg = (a < 0)])
    ELSE RoundQuotient((a < 0) # (b < 0),
                       BigDivSmall(BigShl(BigFromInt(Abs(a)), DivGuardBits), Abs(b)),
                       -DivGuardBits)

\* the decimal literal n/d of the source text (0.45 is Dec(45, 100))
Dec(n, d) == FDivInt(n, d)

\* magnitude comparison of two finite numbers
MagCmp(x, y) ==
    IF x.m = <<>> \/ y.m = <<>>
    THEN (IF x.m = y.m THEN 0 ELSE IF x.m = <<>> THEN -1 ELSE 1)
    ELSE IF x.e # y.e THEN (IF x.e < y.e THEN -1 ELSE 1)
    ELSE BigCmp(x.m, y.m)

IntCmp(a, b) == IF a < b THEN -1 ELSE IF a > b THEN 1 ELSE 0
InfSign(x) == IF x.cls = "inf" THEN (IF x.neg THEN -1 ELSE 1) ELSE 0

\* -1, 0, 1 for x < y, x = y, x > y; 2 when unordered (a NaN operand)
FCmp(x, y) ==
    IF x.cls = "nan" \/ y.cls = "nan" THEN 2
    ELSE IF x.cls = "inf" \/ y.cls = "inf"
    THEN IntCmp(InfSign(x), InfSign(y))
    ELSE IF x.neg # y.neg THEN (IF x.neg THEN -1 ELSE 1)
    ELSE IF x.neg THEN -MagCmp(x, y) ELSE MagCmp(x, y)

FGt(x, y) == FCmp(x, y) = 1
FLt(x, y) == FCmp(x, y) = -1
FGe(x, y) == FCmp(x, y) \in {0, 1}
FLe(x, y) == FCmp(x, y) \in {-1, 0}

\* the sum of two magnitudes of signs xneg and yneg, as a signed magnitude
SignedSum(xneg, mx, yneg, my) ==
    IF xneg = yneg THEN [neg |-> xneg, m |-> BigAdd(mx, my)]
    ELSE IF BigCmp(mx, my) >= 0 THEN [neg |-> xneg, m |-> BigSub(mx, my)]
    ELSE [neg |-> yneg, m |-> BigSub(my, mx)]

RoundSigned(sum, e) == RoundToDouble(sum.neg, sum.m, e, FALSE)

\* the sum of the mantissas mx and my, both in units of 2^e0
FAddAligned(xneg, mx, yneg, my, e0) ==
    RoundSigned(SignedSum(xneg, mx, yneg, my), e0)

\* x + y
FAdd(x, y) ==
    IF x.cls = "nan" \/ y.cls = "nan" THEN NaN
    ELSE IF x.cls = "inf" /\ y.cls = "inf" THEN (IF x.neg = y.neg THEN x ELSE NaN)
    ELSE IF x.cls = "inf" THEN x
    ELSE IF y.cls = "inf" THEN y
    ELSE IF IsZero(x) THEN y
    ELSE IF IsZero(y) THEN x
    ELSE FAddAligned(x.neg, BigShl(x.m, x.e - Min(x.e, y.e)),
                     y.neg, BigShl(y.m, y.e - Min(x.e, y.e)), Min(x.e, y.e))

\* x - y
FSub(x, y) == FAdd(x, FNeg(y))

\* x * y
FMul(x, y) ==
    IF x.cls = "nan" \/ y.cls = "nan" THEN NaN
    ELSE IF x.cls = "inf" \/ y.cls = "inf"
    THEN (IF IsZero(x) \/ IsZero(y) THEN NaN
          ELSE [Infinity EXCEPT !.neg = (x.neg # y.neg)])
    ELSE RoundToDouble(x.neg # y.neg, BigMul(x.m, y.m), x.e + y.e, FALSE)

\* One digit (base LimbBase) of the long division of r by the mantissa b,
\* for r < b * LimbBase: floor(r / b).  The quotient of the leading bits of
\* r and b is at most a few units above it; the digit is the first
\* candidate, going down from there, whose product with b fits in r.
RECURSIVE DigitFrom(_, _, _)
DigitFrom(r, b, d) ==
    IF d = 0 \/ BigCmp(BigMulSmall(b, d), r) <= 0 THEN d ELSE DigitFrom(r, b, d - 1)

QuotientDigit(r, b) ==
    LET lead == 53 - LimbBits
        top  == (BigToInt(BigShr(r, lead)) + 1) \div BigToInt(BigShr(b, lead))
    IN  DigitFrom(r, b, Min(top, LimbBase - 1))

\* Long division of r by b, digit by digit: the integer made of the next
\* `digits` digits of r / b, and the remainder.  (Each step binds what it
\* computed as the element of a singleton set, so that the next step starts
\* from a value and not from an expression.)
RECURSIVE BigLongDiv(_, _, _)
BigLongDiv(r, b, digits) ==
    IF digits = 0 THEN [q |-> <<>>, r |-> r]
    ELSE CHOOSE res \in UNION
             {{[q |-> BigAdd(BigShiftLimbs(BigFromInt(d), digits - 1), rest.q),
                r |-> rest.r] :
                  rest \in {BigLongDiv(next, b, digits - 1) :
                      next \in {BigShiftLimbs(BigSub(r, BigMulSmall(b, d)), 1)}}} :
                  d \in {QuotientDigit(r, b)}} : TRUE

\* floor(a * LimbBase^4 / b) for two mantissas, and whether the division
\* left a remainder
Inexact(d) == [q |-> d.q, inexact |-> d.r # <<>>]
MantissaQuotient(a, b) == Inexact(BigLongDiv(a, b, 5))
RoundMantissaQuotient(neg, d, e) == RoundToDouble(neg, d.q, e, d.inexact)

\* x / y
FDiv(x, y) ==
    IF x.cls = "nan" \/ y.cls = "nan" THEN NaN
    ELSE IF x.cls = "inf"
    THEN (IF y.cls = "inf" THEN NaN ELSE [Infinity EXCEPT !.neg = (x.neg # y.neg)])
    ELSE IF y.cls = "inf" THEN Zero
    ELSE IF IsZero(y)
    THEN (IF IsZero(x) THEN NaN ELSE [Infinity EXCEPT !.neg = x.neg])
    ELSE IF IsZero(x) THEN Zero
    ELSE RoundMantissaQuotient(x.neg # y.neg, MantissaQuotient(x.m, y.m),
                               x.e - y.e - 4 * LimbBits)

\* Number.prototype.toFixed(digits) as the integer it prints, scaled by
\* 10^digits: the integer nearest to |x| * 10^digits, the larger on a tie,
\* with the sign of x.
HalfUp(scaled, s, q) ==
    IF BigCmp(BigSub(scaled, BigShl(q, s)), BigShl(<<1>>, s - 1)) >= 0
    THEN BigAdd(q, <<1>>) ELSE q

\* the integer nearest to scaled * 2^e, the larger on a tie
NearestInt(scaled, e) ==
    IF e >= 0 THEN BigShl(scaled, e) ELSE HalfUp(scaled, -e, BigShr(scaled, -e))

ToFixed(x, digits) ==
    IF x.neg THEN -BigToInt(NearestInt(BigMul(x.m, BigFromInt(10^digits)), x.e))
    ELSE BigToInt(NearestInt(BigMul(x.m, BigFromInt(10^digits)), x.e))


(***************************************************************************)
(* TRADES.  A trade carries the fields the analysis reads: date (the        *)
(* ordinal of its YYYY-MM-DD string), time (the HH:mm string as <<hour,     *)
(* minute>>, the empty string as <<>>), pnl (an integer number) and tags    *)
(* (the entries of the tags object in insertion order, each a category and  *)
(* its array of values; <<>> when the trade has no tags).                   *)
(***************************************************************************)
VARIABLES
    trades,         \* the Trade[] handed to the hook, the analysis or the view
    pc,             \* "ready" before the function under study is applied, then "done"
    streak,         \* what useTradeCycleTracker returned for trades
    report,         \* what analyzeTradesOffline returned for trades
    gradedMetrics,  \* the keyMetrics handed to calculatePerformanceGrade
    grade,          \* what calculatePerformanceGrade returned for them
    circadian,      \* what CircadianInsights computed and rendered for trades
    isLoading,      \* AIAnalysisView: useState(false)
    analysisResult, \* AIAnalysisView: useState(null)
    error,          \* AIAnalysisView: useState(null)
    call,           \* the handleAnalyze invocation awaiting the enrichment, if any
    file,           \* the broker report chosen for import: its format and content
    imported,       \* what parseMt4Trades or parseMt5Trades did with file
    store,          \* the records of the IndexedDB object store 'trades'
    ops,            \* useTrades: the store operations under way, oldest first
    calls,          \* the calls made to the functions useTrades returns, in order
    generated,      \* how many ids generateId has made
    rethrown,       \* the ids whose updateTrade promise was rejected to its caller
    isLoaded,       \* useTrades: useState(false)
    tagSummary      \* what the dashboard TagPerformance computed for trades

vars == <<trades, pc, streak, report, gradedMetrics, grade, circadian,
          isLoading, analysisResult, error, call,
          file, imported, store, ops, calls, generated, rethrown, isLoaded, tagSummary>>

\* A value that may be null is a sequence: empty for null, else of the value.
Null == <<>>
Some(x) == <<x>>

Trade(date, time, pnl, tags) ==
    [date |-> date, time |-> time, pnl |-> pnl, tags |-> tags]

\* a.date + (a.time || ''): the date string followed by the time string
DateTimeKey(t) == <<t.date>> \o t.time

\* String.prototype.localeCompare on two keys: negative, zero or positive
RECURSIVE LocaleCompare(_, _)
LocaleCompare(a, b) ==
    IF a = <<>> THEN (IF b = <<>> THEN 0 ELSE -1)
    ELSE IF b = <<>> THEN 1
    ELSE IF Head(a) # Head(b) THEN (IF Head(a) < Head(b) THEN -1 ELSE 1)
    ELSE LocaleCompare(Tail(a), Tail(b))

\* Array.prototype.sort(cmp) of s, where c[i, j] is cmp(s[i], s[j]): a stable
\* sort, x before y when cmp(x, y) < 0.  An element lands after every element
\* that compares less and after the earlier elements that compare equal.
ArraySort(s, c) ==
    LET n == Len(s)
        pos == [i \in 1..n |->
                   1 + Cardinality({j \in 1..n : c[j, i] < 0})
                     + Cardinality({j \in 1..(i - 1) : c[j, i] = 0})]
    IN  [k \in 1..n |-> s[CHOOSE i \in 1..n : pos[i] = k]]

\* Array.prototype.slice(-n)
SliceLast(s, n) == SubSeq(s, (IF Len(s) > n THEN Len(s) - n + 1 ELSE 1), Len(s))

\* Array.prototype.slice(0, n)
SliceFirst(s, n) == SubSeq(s, 1, (IF Len(s) > n THEN n ELSE Len(s)))

(***************************************************************************)
(* THE STREAK TRACKER: hooks/useTradeCycleTracker.                          *)
(***************************************************************************)
STREAK_THRESHOLD == 3

ChronologicalCmp(a, b) == LocaleCompare(DateTimeKey(a), DateTimeKey(b))

\* the for loop that counts the streak from the last trade backward
RECURSIVE StreakLengthFrom(_, _, _)
StreakLengthFrom(sortedTrades, i, streakType) ==
    IF i = 0 THEN 0
    ELSE LET currentTrade == sortedTrades[i]
             matchesStreakType ==
                 \/ (streakType = "loss" /\ currentTrade.pnl < 0)
                 \/ (streakType = "win" /\ currentTrade.pnl > 0)
         IN  IF matchesStreakType
             THEN 1 + StreakLengthFrom(sortedTrades, i - 1, streakType)
             ELSE 0

\* the hook with the sort left out: the array is taken in the order given
useTradeCycleTracker_unsorted(ts) ==
    IF Len(ts) < STREAK_THRESHOLD THEN Null
    ELSE LET recentTrades == SliceLast(ts, STREAK_THRESHOLD)
             lastTrade    == recentTrades[Len(recentTrades)]
             streakType   == IF lastTrade.pnl < 0 THEN "loss" ELSE "win"
             streakLength == StreakLengthFrom(ts, Len(ts), streakType)
         IN  IF streakLength >= STREAK_THRESHOLD
             THEN Some([type |-> streakType, length |-> streakLength])
             ELSE Null

useTradeCycleTracker(ts) ==
    IF Len(ts) < STREAK_THRESHOLD THEN Null
    ELSE LET sortedTrades == ArraySort(ts, [i, j \in 1..Len(ts) |-> ChronologicalCmp(ts[i], ts[j])])
             recentTrades == SliceLast(sortedTrades, STREAK_THRESHOLD)
             lastTrade    == recentTrades[Len(recentTrades)]
             isLosingStreak ==
                 lastTrade.pnl < 0
                 /\ \A i \in 1..Len(recentTrades) : recentTrades[i].pnl < 0
             isWinningStreak ==
                 lastTrade.pnl > 0
                 /\ \A i \in 1..Len(recentTrades) : recentTrades[i].pnl > 0
         IN  IF isLosingStreak \/ isWinningStreak
             THEN LET streakType   == IF isLosingStreak THEN "loss" ELSE "win"
                      streakLength ==
                          StreakLengthFrom(sortedTrades, Len(sortedTrades), streakType)
                  IN  IF streakLength >= STREAK_THRESHOLD
                      THEN Some([type |-> streakType, length |-> streakLength])
                      ELSE Null
             ELSE Null

(***************************************************************************)
(* The tracker applied to every list of at most MaxTrackerTrades trades     *)
(* whose keys are drawn from three date+time keys, so that lists hold       *)
(* trades with equal keys, and whose P&L is negative, zero or positive.     *)
(***************************************************************************)
MaxTrackerTrades == 4
\* a day without a time, the same day with a time, and the next day
TrackerKeys == {<<1, <<>>>>, <<1, <<9, 30>>>>, <<2, <<>>>>}
TrackerPnls == {-1, 0, 1}

TrackerTrades == {Trade(k[1], k[2], p, <<>>) : k \in TrackerKeys, p \in TrackerPnls}

TrackerLists == UNION {[1..n -> TrackerTrades] : n \in 0..MaxTrackerTrades}

\* the state of the parts of the program a specification leaves aside
IdleImport == file = Null /\ imported = Null
IdleJournal ==
    /\ store = {} /\ ops = <<>> /\ calls = <<>> /\ generated = 0 /\ rethrown = {}
    /\ isLoaded = FALSE
IdleSummary == tagSummary = Null
IdleView ==
    /\ isLoading = FALSE /\ analysisResult = Null /\ error = Null /\ call = Null
    /\ circadian = Null
    /\ IdleImport /\ IdleJournal /\ IdleSummary

InitTracker ==
    /\ trades \in TrackerLists
    /\ pc = "ready"
    /\ streak = Null
    /\ report = Null /\ gradedMetrics = Null /\ grade = Null
    /\ IdleView

\* the hook is rendered with trades: useMemo computes the streak
TrackStreak ==
    /\ pc = "ready"
    /\ streak' = useTradeCycleTracker(trades)
    /\ pc' = "done"
    /\ UNCHANGED <<file, imported, store, ops, calls, generated, rethrown, isLoaded, tagSummary,
                   circadian, trades, report, gradedMetrics, grade,
                   isLoading, analysisResult, error, call>>

NextTracker == TrackStreak

SpecTracker == InitTracker /\ [][NextTracker]_vars

\* the trades in the order the hook examines them, oldest first
Chronological(ts) == ArraySort(ts, [i, j \in 1..Len(ts) |-> ChronologicalCmp(ts[i], ts[j])])

Sign(x) == IF x > 0 THEN 1 ELSE IF x < 0 THEN -1 ELSE 0

\* the greatest k such that the last k trades of s all have the strict sign
\* of the last one
TrailingRun(s) ==
    LET n == Len(s)
        sameSign(k) == \A i \in (n - k + 1)..n :
                           Sign(s[i].pnl) # 0 /\ Sign(s[i].pnl) = Sign(s[n].pnl)
    IN  CHOOSE k \in 0..n : sameSign(k) /\ \A j \in (k + 1)..n : ~sameSign(j)

ExpectedStreak(ts) ==
    IF Len(ts) < 3 THEN Null
    ELSE LET s == Chronological(ts)
             run == TrailingRun(s)
         IN  IF run >= 3
             THEN Some([type |-> IF s[Len(s)].pnl > 0 THEN "win" ELSE "loss",
                        length |-> run])
             ELSE Null

\* the three most recent trades lose and the fourth most recent wins
ThreeLossesAfterWin(ts) ==
    /\ Len(ts) >= 4
    /\ LET s == Chronological(ts)
           n == Len(s)
       IN  s[n].pnl < 0 /\ s[n - 1].pnl < 0 /\ s[n - 2].pnl < 0 /\ s[n - 3].pnl > 0

\* C4: the hook returns null for fewer than 3 trades; otherwise, with the
\* trades in ascending date+time order, the streak is the maximal trailing run
\* of trades with the strict sign of the most recent one, reported with its
\* type only when its length is at least 3; three losses after a win give
\* {loss, 3}.
C4_TrailingRun ==
    pc = "done" =>
        /\ streak = ExpectedStreak(trades)
        /\ ThreeLossesAfterWin(trades) => streak = Some([type |-> "loss", length |-> 3])

\* three losses after a win, handed to the hook out of chronological order
C4_Witness ==
    /\ pc = "done"
    /\ ThreeLossesAfterWin(trades)
    /\ trades # Chronological(trades)
    /\ streak = Some([type |-> "loss", length |-> 3])

Reordered(ts) == {[i \in 1..Len(ts) |-> ts[f[i]]] : f \in Permutations(1..Len(ts))}

\* C5: every reordering of the trade list gives the streak the hook returned,
\* also when several trades share a date+time key.
C5_OrderIndependent ==
    pc = "done" => \A other \in Reordered(trades) : useTradeCycleTracker(other) = streak

(***************************************************************************)
(* THE OFFLINE ANALYSIS ENGINE: utils/offlineAnalysis.ts.                   *)
(* A translated text t(key, params) is the record of its key and params;    *)
(* formatCurrency, supplied by the caller, is kept as the number it is      *)
(* given.                                                                    *)
(***************************************************************************)
MIN_TAG_TRADES == 3
TREND_ANALYSIS_PERIOD == 20

RECURSIVE SumPnl(_)
\* reduce((acc, t) => acc + t.pnl, 0)
SumPnl(ts) == IF ts = <<>> THEN 0 ELSE Head(ts).pnl + SumPnl(Tail(ts))

Winners(ts) == SelectSeq(ts, LAMBDA t : t.pnl > 0)
Losers(ts) == SelectSeq(ts, LAMBDA t : t.pnl < 0)

\* value.toFixed(digits) of a number that may not be finite
FormatFixed(x, digits) ==
    IF IsFinite(x) THEN <<"number", ToFixed(x, digits), digits>>
    ELSE <<x.cls, 0, digits>>

formatPercent(value) == FormatFixed(value, 0)

\* (wins / count) * 100
Percentage(wins, count) == FMul(FDivInt(wins, count), FromInt(100))

\* the profit factor with Math.abs left out
ProfitFactor_signed(winPnl, lossPnl) ==
    IF lossPnl # 0 THEN FDivInt(winPnl, lossPnl) ELSE Infinity

\* lossPnl !== 0 ? Math.abs(winPnl / lossPnl) : Infinity
ProfitFactor(winPnl, lossPnl) ==
    IF lossPnl # 0 THEN FAbs(FDivInt(winPnl, lossPnl)) ELSE Infinity

(* Math.round(10 * Math.exp(-0.6 * cv)) for cv = sqrt(num / den).  Math.sqrt *)
(* and Math.exp are approximations of irrational values; the result is      *)
(* obtained from the exact cv^2 = num / den instead: the rounded value is   *)
(* at least k exactly when cv <= ln(10 / (k - 1/2)) / 0.6, and              *)
(* ExpScoreSquares[k] is the square of that limit in millionths (rounded    *)
(* down).  No value of the model lies within a millionth of a limit.        *)
ExpScoreSquares ==
    <<24928921, 9997400, 5338366, 3061462, 1771151,
      992802, 515483, 229891, 73367, 7308>>
ExpScoreScale == 10^6

RoundedExpScore(num, den) ==
    Cardinality({k \in 1..Len(ExpScoreSquares) :
        BigCmp(BigMul(BigFromInt(num), BigFromInt(ExpScoreScale)),
               BigMul(BigFromInt(ExpScoreSquares[k]), BigFromInt(den))) <= 0})

RECURSIVE SumSquares(_)
SumSquares(ts) ==
    IF ts = <<>> THEN 0 ELSE Head(ts).pnl * Head(ts).pnl + SumSquares(Tail(ts))

RECURSIVE SumAbs(_)
SumAbs(ts) == IF ts = <<>> THEN 0 ELSE Abs(Head(ts).pnl) + SumAbs(Tail(ts))

\* the score with the deviations taken from zero instead of the mean
calculateConsistency_aboutZero(ts) ==
    IF Len(ts) < 5 THEN 0
    ELSE IF SumAbs(ts) = 0 THEN 1
    ELSE Max(1, Min(10, RoundedExpScore(Len(ts) * SumSquares(ts),
                                        SumAbs(ts) * SumAbs(ts))))

\* the score without the Math.max(1, ...) that keeps it from 0
calculateConsistency_unclamped(ts) ==
    IF Len(ts) < 5 THEN 0
    ELSE IF SumAbs(ts) = 0 THEN 1
    ELSE Min(10, RoundedExpScore(Len(ts) * SumSquares(ts) - SumPnl(ts) * SumPnl(ts),
                                 SumAbs(ts) * SumAbs(ts)))

\* With mean = sum / n, stdDev^2 = (n * sumSq - sum^2) / n^2 and
\* avgAbsPnl = sumAbs / n, so that
\* (stdDev / avgAbsPnl)^2 = (n * sumSq - sum^2) / sumAbs^2.
calculateConsistency(ts) ==
    IF Len(ts) < 5 THEN 0
    ELSE LET n      == Len(ts)
             sum    == SumPnl(ts)
             sumSq  == SumSquares(ts)
             sumAbs == SumAbs(ts)
         IN  IF sumAbs = 0 THEN 1
             ELSE LET score == RoundedExpScore(n * sumSq - sum * sum, sumAbs * sumAbs)
                  IN  Max(1, Min(10, score))

GradeTotalScore(pfScore, wrScore, consistencyScore) ==
    FAdd(FAdd(FMul(FromInt(pfScore), Dec(45, 100)),
              FMul(FromInt(wrScore), Dec(35, 100))),
         FMul(FromInt(consistencyScore), Dec(2, 10)))

PfScore(profitFactor) ==
    IF IsFinite(profitFactor)
    THEN (IF FGt(profitFactor, FromInt(2)) THEN 10
          ELSE IF FGt(profitFactor, Dec(15, 10)) THEN 8
          ELSE IF FGt(profitFactor, Dec(12, 10)) THEN 6
          ELSE IF FGt(profitFactor, FromInt(1)) THEN 4 ELSE 2)
    ELSE 10

WrScore(winRate) ==
    IF FGt(winRate, FromInt(65)) THEN 10
    ELSE IF FGt(winRate, FromInt(55)) THEN 8
    ELSE IF FGt(winRate, FromInt(50)) THEN 6
    ELSE IF FGt(winRate, FromInt(40)) THEN 4 ELSE 2

PerformanceGrade(letter) ==
    [grade |-> letter, summary |-> "aiInsights.grade.summary" \o letter]

\* the grade with thresholds that also admit a total equal to them
calculatePerformanceGrade_atLeast(metrics) ==
    LET totalScore == GradeTotalScore(PfScore(metrics.profitFactor),
                                      WrScore(metrics.winRate),
                                      metrics.consistencyScore)
    IN  IF FGe(totalScore, Dec(85, 10)) THEN PerformanceGrade("A")
        ELSE IF FGe(totalScore, FromInt(7)) THEN PerformanceGrade("B")
        ELSE IF FGe(totalScore, FromInt(5)) THEN PerformanceGrade("C")
        ELSE PerformanceGrade("D")

calculatePerformanceGrade(metrics) ==
    LET profitFactor == metrics.profitFactor
        winRate == metrics.winRate
        consistencyScore == metrics.consistencyScore
        pfScore == PfScore(profitFactor)
        wrScore == WrScore(winRate)
        totalScore == GradeTotalScore(pfScore, wrScore, consistencyScore)
    IN  IF FGt(totalScore, Dec(85, 10)) THEN PerformanceGrade("A")
        ELSE IF FGt(totalScore, FromInt(7)) THEN PerformanceGrade("B")
        ELSE IF FGt(totalScore, FromInt(5)) THEN PerformanceGrade("C")
        ELSE PerformanceGrade("D")

(***************************************************************************)
(* The grade of every keyMetrics whose profit factor is the quotient of a   *)
(* winning total by a losing total (none for no losses), whose win rate is  *)
(* a number of half points and whose consistency score is 0..10: the values *)
(* on, just under and just over every threshold.                            *)
(***************************************************************************)
GradeWinPnls == {0, 19, 20, 21, 23, 24, 25, 29, 30, 31, 39, 40, 41, 100}
GradeLossPnls == {0, -20}
GradeHalfPoints == {0, 79, 80, 81, 99, 100, 101, 109, 110, 111, 129, 130, 131, 200}
ConsistencyScores == 0..10

GradeProfitFactor == [w \in GradeWinPnls, l \in GradeLossPnls |-> ProfitFactor(w, l)]
GradeWinRate == [h \in GradeHalfPoints |-> FDivInt(h, 2)]

GradeMetrics(w, l, h, cs) ==
    [profitFactor |-> GradeProfitFactor[w, l], winRate |-> GradeWinRate[h],
     consistencyScore |-> cs]

InitGrade ==
    /\ \E w \in GradeWinPnls, l \in GradeLossPnls, h \in GradeHalfPoints,
          cs \in ConsistencyScores : gradedMetrics = GradeMetrics(w, l, h, cs)
    /\ pc = "ready"
    /\ grade = Null
    /\ trades = <<>> /\ streak = Null /\ report = Null
    /\ IdleView

GradePerformance ==
    /\ pc = "ready"
    /\ grade' = calculatePerformanceGrade(gradedMetrics)
    /\ pc' = "done"
    /\ UNCHANGED <<file, imported, store, ops, calls, generated, rethrown, isLoaded, tagSummary,
                   circadian, trades, streak, report, gradedMetrics,
                   isLoading, analysisResult, error, call>>

NextGrade == GradePerformance

SpecGrade == InitGrade /\ [][NextGrade]_vars

\* the scores and the total in hundredths, in integer arithmetic
ExpectedPfScore(w, l) ==
    IF l = 0 THEN 10
    ELSE IF w > 2 * (-l) THEN 10
    ELSE IF 10 * w > 15 * (-l) THEN 8
    ELSE IF 10 * w > 12 * (-l) THEN 6
    ELSE IF w > -l THEN 4 ELSE 2

ExpectedWrScore(h) ==
    IF h > 2 * 65 THEN 10
    ELSE IF h > 2 * 55 THEN 8
    ELSE IF h > 2 * 50 THEN 6
    ELSE IF h > 2 * 40 THEN 4 ELSE 2

ExpectedHundredths(w, l, h, cs) ==
    45 * ExpectedPfScore(w, l) + 35 * ExpectedWrScore(h) + 20 * cs

ExpectedGrade(w, l, h, cs) ==
    LET total == ExpectedHundredths(w, l, h, cs)
    IN  IF total > 850 THEN "A"
        ELSE IF total > 700 THEN "B"
        ELSE IF total > 500 THEN "C" ELSE "D"

\* C9: the grade is the one the weighted total 0.45 pfScore + 0.35 wrScore +
\* 0.20 consistencyScore gives under the strict thresholds 8.5, 7 and 5, with
\* the scores of the strict profit-factor and win-rate bands; a total on a
\* threshold gets the lower grade.
C9_GradeOfTotal ==
    pc = "done" /\ grade # Null =>
        \A w \in GradeWinPnls, l \in GradeLossPnls, h \in GradeHalfPoints :
            (/\ gradedMetrics.profitFactor = GradeProfitFactor[w, l]
             /\ gradedMetrics.winRate = GradeWinRate[h])
            => grade.grade = ExpectedGrade(w, l, h, gradedMetrics.consistencyScore)

\* profit-factor score 10, win-rate score 8 and consistency 6 total exactly
\* 8.5, and the grade is B
C9_Witness ==
    /\ pc = "done" /\ grade # Null
    /\ gradedMetrics = GradeMetrics(41, -20, 130, 6)
    /\ ExpectedHundredths(41, -20, 130, 6) = 850
    /\ grade.grade = "B"

\* trades.slice(0, TREND_ANALYSIS_PERIOD)
RecentTrades(ts) == SliceFirst(ts, TREND_ANALYSIS_PERIOD)

analyzePerformanceTrend(ts, overallWinRate, overallProfitFactor) ==
    IF Len(ts) < TREND_ANALYSIS_PERIOD * 2 THEN Null
    ELSE LET recentTrades == RecentTrades(ts)
             recentWins == Len(Winners(recentTrades))
             recentWinRate ==
                 IF Len(recentTrades) > 0
                 THEN Percentage(recentWins, Len(recentTrades)) ELSE Zero
             recentTotalWinPnl == SumPnl(Winners(recentTrades))
             recentTotalLossPnl == SumPnl(Losers(recentTrades))
             recentProfitFactor == ProfitFactor(recentTotalWinPnl, recentTotalLossPnl)
             winRateDrop == FSub(overallWinRate, recentWinRate)
             isDegraded ==
                 \/ FGt(winRateDrop, FromInt(15))
                 \/ /\ IsFinite(overallProfitFactor)
                    /\ FLt(recentProfitFactor, FMul(overallProfitFactor, Dec(7, 10)))
         IN  IF isDegraded
             THEN Some([topic |-> "performance",
                        pattern |-> [key |-> "aiInsights.offline.trendPattern",
                                     params |-> [count |-> TREND_ANALYSIS_PERIOD,
                                                 winRate |-> formatPercent(recentWinRate)]],
                        recommendation |-> "aiInsights.offline.trendRec",
                        relatedTags |-> <<>>])
             ELSE Null

\* new Date(`${trade.date}T${trade.time}`).getHours(): <<hour>>, and <<>> for
\* the NaN of the invalid date that an empty time gives
HourOf(t) == IF t.time = <<>> THEN <<>> ELSE <<t.time[1]>>

\* the keys of a Map filled from s, in insertion order: each value at its
\* first occurrence
RECURSIVE FirstOccurrences(_, _)
FirstOccurrences(s, seen) ==
    IF s = <<>> THEN <<>>
    ELSE IF Head(s) \in seen THEN FirstOccurrences(Tail(s), seen)
    ELSE <<Head(s)>> \o FirstOccurrences(Tail(s), seen \cup {Head(s)})

\* b.avgPnl - a.avgPnl of two numbers, as a sort comparator
DescendingNumberCmp(x, y) == LET c == FCmp(y, x) IN IF c = 2 THEN 0 ELSE c

findGoldenHour(ts) ==
    LET hours == FirstOccurrences([i \in 1..Len(ts) |-> HourOf(ts[i])], {})
        inHour(h) == SelectSeq(ts, LAMBDA t : HourOf(t) = h)
        hourlyStats ==
            [k \in 1..Len(hours) |->
                [hour |-> hours[k], pnl |-> SumPnl(inHour(hours[k])),
                 count |-> Len(inHour(hours[k]))]]
        significant == SelectSeq(hourlyStats, LAMBDA st : st.count >= 5)
        withAvg ==
            [k \in 1..Len(significant) |->
                [hour |-> significant[k].hour, pnl |-> significant[k].pnl,
                 count |-> significant[k].count,
                 avgPnl |-> FDivInt(significant[k].pnl, significant[k].count)]]
        significantHours ==
            ArraySort(withAvg, [i, j \in 1..Len(withAvg) |->
                          DescendingNumberCmp(withAvg[i].avgPnl, withAvg[j].avgPnl)])
    IN  IF Len(significantHours) > 0 /\ FGt(significantHours[1].avgPnl, Zero)
        THEN LET bestHour == significantHours[1]
             IN  Some([topic |-> "timing",
                       pattern |-> [key |-> "aiInsights.offline.goldenHourPattern",
                                    params |-> [hour |-> bestHour.hour,
                                                avgPnl |-> bestHour.avgPnl]],
                       recommendation |-> "aiInsights.offline.goldenHourRec",
                       relatedTags |-> <<>>])
        ELSE Null

analyzeRiskProfile(avgWin, avgLoss, winRate) ==
    LET rrRatio == IF ~IsZero(avgLoss) THEN FAbs(FDiv(avgWin, avgLoss)) ELSE Infinity
        profileKey ==
            IF FGt(rrRatio, Dec(25, 10)) /\ FLt(winRate, FromInt(45))
            THEN "riskProfile_sniper"
            ELSE IF FLt(rrRatio, Dec(15, 10)) /\ FGt(winRate, FromInt(55))
            THEN "riskProfile_scalper"
            ELSE IF FLt(rrRatio, Dec(12, 10)) /\ FLt(winRate, FromInt(45))
            THEN "riskProfile_highRisk"
            ELSE IF FGt(rrRatio, FromInt(2)) /\ FGt(winRate, FromInt(50))
            THEN "riskProfile_effective"
            ELSE "riskProfile_balanced"
    IN  [topic |-> "risk",
         text |-> [key |-> profileKey,
                   params |-> [rr |-> IF IsFinite(rrRatio)
                                      THEN FormatFixed(rrRatio, 1)
                                      ELSE <<"N/A", 0, 1>>,
                               winRate |-> formatPercent(winRate)]]]

\* Object.entries(trade.tags).flatMap(...): the `category:value` strings of a
\* trade, each as the pair <<category, value>>
RECURSIVE AllTradeTags(_)
AllTradeTags(entries) ==
    IF entries = <<>> THEN <<>>
    ELSE [k \in 1..Len(Head(entries).values) |->
             <<Head(entries).category, Head(entries).values[k]>>]
         \o AllTradeTags(Tail(entries))

\* every (tag, pnl) that the forEach loops visit, in the order they visit it
RECURSIVE TagOccurrences(_)
TagOccurrences(ts) ==
    IF ts = <<>> THEN <<>>
    ELSE LET tags == AllTradeTags(Head(ts).tags)
         IN  [k \in 1..Len(tags) |-> [tag |-> tags[k], pnl |-> Head(ts).pnl]]
             \o TagOccurrences(Tail(ts))

\* the entries of the tagStats map, in insertion order
TagStats(ts) ==
    LET occ  == TagOccurrences(ts)
        keys == FirstOccurrences([k \in 1..Len(occ) |-> occ[k].tag], {})
        of(tag) == SelectSeq(occ, LAMBDA o : o.tag = tag)
    IN  [k \in 1..Len(keys) |->
            [tag |-> keys[k],
             pnl |-> SumPnl(of(keys[k])),
             wins |-> Len(Winners(of(keys[k]))),
             losses |-> Len(Losers(of(keys[k]))),
             count |-> Len(of(keys[k]))]]

SignificantTags(ts) ==
    LET kept == SelectSeq(TagStats(ts), LAMBDA st : st.count >= MIN_TAG_TRADES)
    IN  [k \in 1..Len(kept) |->
            [tag |-> kept[k].tag, pnl |-> kept[k].pnl, wins |-> kept[k].wins,
             losses |-> kept[k].losses, count |-> kept[k].count,
             winRate |-> IF kept[k].count > 0
                         THEN Percentage(kept[k].wins, kept[k].count) ELSE Zero,
             avgPnl |-> IF kept[k].count > 0
                        THEN FDivInt(kept[k].pnl, kept[k].count) ELSE Zero]]

\* the profitable tags sorted with the comparator of the unprofitable ones
PnlDescending_ascending(s) == ArraySort(s, [i, j \in 1..Len(s) |-> s[i].pnl - s[j].pnl])

\* sort((a, b) => b.pnl - a.pnl) and sort((a, b) => a.pnl - b.pnl)
PnlDescending(s) == ArraySort(s, [i, j \in 1..Len(s) |-> s[j].pnl - s[i].pnl])
PnlAscending(s) == ArraySort(s, [i, j \in 1..Len(s) |-> s[i].pnl - s[j].pnl])

TagStatOf(st) ==
    [tag |-> st.tag, totalPnl |-> st.pnl, tradeCount |-> st.count, winRate |-> st.winRate]

\* formatTag: the tag without its category prefix
formatTag(tag) == tag[2]

\* the insights pushed from the significant tags; the two sorts are in place,
\* so the mistakes are filtered from the ascending order
TagInsights(significantTags) ==
    LET descending == PnlDescending(significantTags)
        ascending  == PnlAscending(descending)
        best  == SliceFirst(descending, 1)
        worst == SliceFirst(ascending, 1)
        mistakeTags == SelectSeq(ascending, LAMBDA st : st.tag[1] = "mistakes")
        sortedMistakes == PnlAscending(mistakeTags)
    IN  (IF Len(best) > 0 /\ best[1].pnl > 0
         THEN <<[topic |-> "strategy",
                 pattern |-> [key |-> "aiInsights.offline.strengthTag",
                              params |-> [tag |-> formatTag(best[1].tag),
                                          pnl |-> best[1].pnl]],
                 recommendation |-> "aiInsights.offline.strengthTagRec",
                 relatedTags |-> <<best[1].tag>>]>>
         ELSE <<>>)
        \o
        (IF Len(worst) > 0 /\ worst[1].pnl < 0
         THEN <<[topic |-> "strategy",
                 pattern |-> [key |-> "aiInsights.offline.weaknessTag",
                              params |-> [tag |-> formatTag(worst[1].tag),
                                          pnl |-> worst[1].pnl]],
                 recommendation |-> "aiInsights.offline.weaknessTagRec",
                 relatedTags |-> <<worst[1].tag>>]>>
         ELSE <<>>)
        \o
        (IF Len(mistakeTags) > 0 /\ sortedMistakes[1].pnl < 0
         THEN <<[topic |-> "risk",
                 pattern |-> [key |-> "aiInsights.offline.patternMistake",
                              params |-> [mistake |-> formatTag(sortedMistakes[1].tag),
                                          pnl |-> sortedMistakes[1].pnl]],
                 recommendation |-> "aiInsights.offline.recommendationMistake",
                 relatedTags |-> <<sortedMistakes[1].tag>>]>>
         ELSE <<>>)

\* the insights with the golden hour pushed first
ActionableInsights_timingFirst(tagInsights, performanceTrendInsight, goldenHourInsight) ==
    goldenHourInsight \o tagInsights \o performanceTrendInsight

\* the pushes onto actionableInsights, in the order of the statements; an
\* insight that is null is not pushed
ActionableInsights(tagInsights, performanceTrendInsight, goldenHourInsight) ==
    tagInsights \o performanceTrendInsight \o goldenHourInsight

analyzeTradesOffline(ts) ==
    LET totalPnl == SumPnl(ts)
        totalWins == Len(Winners(ts))
        totalLosses == Len(Losers(ts))
        winRate == IF Len(ts) > 0 THEN Percentage(totalWins, Len(ts)) ELSE Zero
        totalWinPnl == SumPnl(Winners(ts))
        totalLossPnl == SumPnl(Losers(ts))
        avgWin == IF totalWins > 0 THEN FDivInt(totalWinPnl, totalWins) ELSE Zero
        avgLoss == IF totalLosses > 0 THEN FDivInt(totalLossPnl, totalLosses) ELSE Zero
        profitFactor == ProfitFactor(totalWinPnl, totalLossPnl)
        significantTags == SignificantTags(ts)
        profitableTags ==
            SliceFirst(PnlDescending(SelectSeq(significantTags, LAMBDA st : st.pnl > 0)), 5)
        unprofitableTags ==
            SliceFirst(PnlAscending(SelectSeq(significantTags, LAMBDA st : st.pnl < 0)), 5)
        strengths ==
            (IF FGt(winRate, FromInt(55))
             THEN <<[key |-> "aiInsights.offline.strengthWinRate",
                     params |-> formatPercent(winRate)]>>
             ELSE <<>>)
            \o (IF FGt(profitFactor, Dec(15, 10))
                THEN <<[key |-> "aiInsights.offline.strengthProfitFactor",
                        params |-> FormatFixed(profitFactor, 2)]>>
                ELSE <<>>)
        weaknesses ==
            (IF FLt(winRate, FromInt(45))
             THEN <<[key |-> "aiInsights.offline.weaknessWinRate",
                     params |-> formatPercent(winRate)]>>
             ELSE <<>>)
            \o (IF FLt(profitFactor, FromInt(1)) /\ IsFinite(profitFactor)
                THEN <<[key |-> "aiInsights.offline.weaknessProfitFactor",
                        params |-> FormatFixed(profitFactor, 2)]>>
                ELSE <<>>)
        actionableInsights ==
            ActionableInsights(TagInsights(significantTags),
                               analyzePerformanceTrend(ts, winRate, profitFactor),
                               findGoldenHour(ts))
        keyObservations ==
            <<[topic |-> "general",
               text |-> [key |-> "aiInsights.offline.observationOverall",
                         params |-> [tradeCount |-> Len(ts), totalPnl |-> totalPnl]]],
              analyzeRiskProfile(avgWin, avgLoss, winRate)>>
        summary ==
            [key |-> "aiInsights.offline.summary",
             params |-> [result |-> IF totalPnl > 0 THEN "common.profitable"
                                    ELSE "common.unprofitable",
                         tradeCount |-> Len(ts),
                         winRate |-> formatPercent(winRate)]]
        keyMetrics ==
            [consistencyScore |-> calculateConsistency(ts),
             profitFactor |-> profitFactor,
             winRate |-> winRate,
             totalPnl |-> totalPnl,
             tradeCount |-> Len(ts),
             avgWin |-> avgWin,
             avgLoss |-> avgLoss]
    IN  [overallSummary |-> summary,
         strengths |-> strengths,
         weaknesses |-> weaknesses,
         actionableInsights |-> actionableInsights,
         keyObservations |-> keyObservations,
         performanceGrade |-> calculatePerformanceGrade(keyMetrics),
         keyMetrics |-> keyMetrics,
         tagPerformance |->
             [profitable |-> [k \in 1..Len(profitableTags) |-> TagStatOf(profitableTags[k])],
              unprofitable |->
                  [k \in 1..Len(unprofitableTags) |-> TagStatOf(unprofitableTags[k])]]]

(***************************************************************************)
(* The offline analysis applied to trade lists, one trade a day.  A short   *)
(* list is any sequence of at most MaxShortTrades P&L values.  A long list  *)
(* is a block of the TREND_ANALYSIS_PERIOD most recent trades and a block   *)
(* of older ones, each a mix <<w, l, rest>>: w winners and l losers of one  *)
(* unit, and the remaining trades with P&L rest.  The array holds the       *)
(* trades newest first, as the trade store keeps them, or oldest first.     *)
(***************************************************************************)
MaxShortTrades == 5
MaxOlderTrades == 21
ShortPnls == {-1, 0, 2}
OlderSizes == (TREND_ANALYSIS_PERIOD - 1)..MaxOlderTrades
BlockMixes ==
    {<<0, 0, 0>>, <<0, 0, 1>>, <<0, 0, -1>>,    \* all breakeven, all won, all lost
     <<1, 0, 0>>, <<3, 0, 0>>, <<8, 0, 0>>, <<14, 0, 0>>,  \* winners, else breakeven
     <<5, 14, 0>>, <<14, 5, 0>>, <<8, 11, 0>>, <<7, 10, 0>>}
Layouts == {"newestFirst", "oldestFirst"}

Repeat(x, n) == [i \in 1..n |-> x]

BlockPnls(mix, size) ==
    Repeat(1, mix[1]) \o Repeat(-1, mix[2]) \o Repeat(mix[3], size - mix[1] - mix[2])

\* the trades of the P&L values pnls, given most recent first, in a layout
DatedTrades(pnls, layout) ==
    LET n == Len(pnls)
    IN  [i \in 1..n |->
            LET k == IF layout = "newestFirst" THEN i ELSE n - i + 1
            IN  Trade(n - k + 1, <<9, 30>>, pnls[k], <<>>)]

ShortPnlLists == UNION {[1..n -> ShortPnls] : n \in 0..MaxShortTrades}

LongPnlLists ==
    {BlockPnls(recent, TREND_ANALYSIS_PERIOD) \o BlockPnls(older, size) :
        recent \in BlockMixes, older \in BlockMixes, size \in OlderSizes}

OfflineLists ==
    {DatedTrades(pnls, layout) : pnls \in ShortPnlLists \cup LongPnlLists,
                                 layout \in Layouts}

InitOffline ==
    /\ trades \in OfflineLists
    /\ pc = "ready"
    /\ report = Null
    /\ streak = Null /\ gradedMetrics = Null /\ grade = Null
    /\ IdleView

AnalyzeOffline ==
    /\ pc = "ready"
    /\ report' = Some(analyzeTradesOffline(trades))
    /\ pc' = "done"
    /\ UNCHANGED <<file, imported, store, ops, calls, generated, rethrown, isLoaded, tagSummary,
                   circadian, trades, streak, gradedMetrics, grade,
                   isLoading, analysisResult, error, call>>

NextOffline == AnalyzeOffline

SpecOffline == InitOffline /\ [][NextOffline]_vars

Report == report[1]

\* the insight analyzePerformanceTrend contributed to the report, if any
TrendInsights(r) == SelectSeq(r.actionableInsights, LAMBDA i : i.topic = "performance")

\* the trades by descending date+time key
MostRecentFirst(ts) == ArraySort(ts, [i, j \in 1..Len(ts) |-> ChronologicalCmp(ts[j], ts[i])])

Elements(s) == {s[i] : i \in 1..Len(s)}

\* C6: the recent window compared against the lifetime figures is the
\* TREND_ANALYSIS_PERIOD trades with the greatest date+time keys, whatever the
\* order of the array, and the reported insight is the one that window gives.
C6_WindowIsMostRecent ==
    pc = "done" /\ Len(trades) >= TREND_ANALYSIS_PERIOD =>
        /\ Elements(RecentTrades(trades))
               = Elements(SliceFirst(MostRecentFirst(trades), TREND_ANALYSIS_PERIOD))
        /\ TrendInsights(Report)
               = analyzePerformanceTrend(MostRecentFirst(trades),
                                         Report.keyMetrics.winRate,
                                         Report.keyMetrics.profitFactor)

\* the sum of the first n P&L values of s, taken from the last one down
RECURSIVE PnlTotal(_, _)
PnlTotal(s, n) == IF n = 0 THEN 0 ELSE s[n].pnl + PnlTotal(s, n - 1)

WinCount(s) == Cardinality({i \in 1..Len(s) : s[i].pnl > 0})
LossCount(s) == Cardinality({i \in 1..Len(s) : s[i].pnl < 0})
WonTotal(s) == LET kept == SelectSeq(s, LAMBDA t : t.pnl > 0) IN PnlTotal(kept, Len(kept))
LostTotal(s) == LET kept == SelectSeq(s, LAMBDA t : t.pnl < 0) IN -PnlTotal(kept, Len(kept))

\* the rule in exact arithmetic on the first TREND_ANALYSIS_PERIOD trades of
\* the array.  (a): wins/n*100 - recentWins/20*100 > 15.  (b): the lifetime
\* losses are not zero, the recent losses are not zero and
\* recentWon/recentLost < 0.7 * won/lost.
ExpectedDegraded(ts) ==
    LET n == Len(ts)
        recent == SubSeq(ts, 1, 20)
    IN  /\ n >= 40
        /\ \/ 100 * (20 * WinCount(ts) - n * WinCount(recent)) > 15 * 20 * n
           \/ /\ LostTotal(ts) # 0
              /\ LostTotal(recent) # 0
              /\ 10 * WonTotal(recent) * LostTotal(ts) < 7 * WonTotal(ts) * LostTotal(recent)

\* C7: the degradation insight is reported if and only if there are at least
\* 40 trades and the lifetime win rate exceeds the recent one by more than 15
\* points or the lifetime profit factor is finite and the recent profit
\* factor is under 0.7 times it.
C7_DegradationRule ==
    pc = "done" => ((TrendInsights(Report) # <<>>) <=> ExpectedDegraded(trades))

\* C8: for a non-empty list winRate is within [0, 100], profitFactor is a
\* number >= 0 or +Infinity, the latter exactly when no trade has a negative
\* P&L, and never NaN; tradeCount is the length and totalPnl the sum.
C8_KeyMetricsRanges ==
    pc = "done" /\ Len(trades) > 0 =>
        LET km == Report.keyMetrics
        IN  /\ IsFinite(km.winRate)
            /\ FGe(km.winRate, Zero) /\ FLe(km.winRate, FromInt(100))
            /\ ~IsNaN(km.profitFactor)
            /\ ~km.profitFactor.neg
            /\ IsFinite(km.profitFactor) => FGe(km.profitFactor, Zero)
            /\ (km.profitFactor = Infinity) <=> (LossCount(trades) = 0)
            /\ km.tradeCount = Len(trades)
            /\ km.totalPnl = PnlTotal(trades, Len(trades))

\* a list with winners and losers: a finite profit factor above zero and a
\* win rate strictly inside the range
C8_Witness ==
    /\ pc = "done"
    /\ WinCount(trades) > 0 /\ LossCount(trades) > 0
    /\ IsFinite(Report.keyMetrics.profitFactor)
    /\ FGt(Report.keyMetrics.profitFactor, Zero)
    /\ FGt(Report.keyMetrics.winRate, Zero)
    /\ FLt(Report.keyMetrics.winRate, FromInt(100))

SamePnl(ts) == \A i, j \in 1..Len(ts) : ts[i].pnl = ts[j].pnl

\* C10 as stated: every list of at least 5 trades with one P&L value gets
\* the consistency score 10.
C10_SamePnlScoresTen ==
    pc = "done" /\ Len(trades) >= 5 /\ SamePnl(trades) =>
        Report.keyMetrics.consistencyScore = 10

\* C10 amended: every list of at least 5 trades with one P&L value other than
\* zero gets the consistency score 10.
C10_SameNonZeroPnlScoresTen ==
    pc = "done" /\ Len(trades) >= 5 /\ SamePnl(trades) /\ trades[1].pnl # 0 =>
        Report.keyMetrics.consistencyScore = 10

C10_Witness ==
    /\ pc = "done"
    /\ Len(trades) >= 5 /\ SamePnl(trades) /\ trades[1].pnl # 0
    /\ Report.keyMetrics.consistencyScore = 10

\* the score Math.round gives before it is clamped to 1..10
UnclampedScore(ts) ==
    RoundedExpScore(Len(ts) * SumSquares(ts) - SumPnl(ts) * SumPnl(ts),
                    SumAbs(ts) * SumAbs(ts))

\* C11: calculateConsistency returns 0 exactly for the lists of fewer than 5
\* trades, and an integer from 1 to 10 for every list of 5 or more.
C11_ScoreRange ==
    pc = "done" =>
        /\ (Report.keyMetrics.consistencyScore = 0) <=> (Len(trades) < 5)
        /\ Len(trades) >= 5 => Report.keyMetrics.consistencyScore \in 1..10

\* a list so uneven that the rounded exponential is 0, and the score is 1
C11_Witness ==
    /\ pc = "done"
    /\ Len(trades) >= 5
    /\ SumAbs(trades) # 0
    /\ UnclampedScore(trades) = 0
    /\ Report.keyMetrics.consistencyScore = 1

(***************************************************************************)
(* The offline analysis applied to trades that carry tags and times of day. *)
(* A trade's tags are the entries of its TradeTags object, each a category  *)
(* and its values (one value for the single-valued confidence).  The lists  *)
(* are: every short list over a few kinds of trade, among them one whose    *)
(* strategy array names Breakout twice, as a backup file or the migration   *)
(* of the old tag format can produce; five trades that share nine tags in   *)
(* different combinations; trades in blocks at two hours of the day and     *)
(* with no time; and forty trades, some of them tagged.                     *)
(***************************************************************************)
MaxTaggedTrades == 3

TagEntry(category, values) == [category |-> category, values |-> values]

Breakout == <<TagEntry("strategy", <<"Breakout">>)>>
BreakoutTwice == <<TagEntry("strategy", <<"Breakout", "Breakout">>)>>
Fomo == <<TagEntry("mistakes", <<"FOMO">>)>>

TaggedKinds ==
    {Trade(1, <<9, 30>>, 50, Breakout), Trade(1, <<9, 30>>, 100, Breakout),
     Trade(1, <<9, 30>>, 75, Breakout), Trade(1, <<9, 30>>, 50, BreakoutTwice),
     Trade(1, <<9, 30>>, -60, Fomo), Trade(1, <<>>, -60, <<>>)}

ShortTaggedLists == UNION {[1..n -> TaggedKinds] : n \in 0..MaxTaggedTrades}

\* the tags of the five trades: each tag on three or more of them, but for
\* strategy:Reversal, which is on two
SharedTags ==
    <<<<TagEntry("strategy", <<"Breakout", "Trend", "Reversal">>),
        TagEntry("trigger", <<"News">>), TagEntry("confidence", <<"High">>),
        TagEntry("custom", <<"Plan">>)>>,
      <<TagEntry("strategy", <<"Breakout", "Trend", "Reversal">>),
        TagEntry("session", <<"London">>), TagEntry("mistakes", <<"FOMO">>),
        TagEntry("confidence", <<"High">>), TagEntry("custom", <<"Plan">>)>>,
      <<TagEntry("strategy", <<"Breakout">>), TagEntry("trigger", <<"News">>),
        TagEntry("mistakes", <<"FOMO">>), TagEntry("confidence", <<"High">>),
        TagEntry("emotions", <<"Calm">>), TagEntry("custom", <<"Plan">>)>>,
      <<TagEntry("strategy", <<"Trend">>), TagEntry("session", <<"London">>),
        TagEntry("confidence", <<"High">>), TagEntry("emotions", <<"Calm">>),
        TagEntry("custom", <<"Plan">>)>>,
      <<TagEntry("trigger", <<"News">>), TagEntry("session", <<"London">>),
        TagEntry("mistakes", <<"FOMO">>), TagEntry("confidence", <<"High">>),
        TagEntry("emotions", <<"Calm">>)>>>>
SharedPnls == {-3, 1, 2}

SharedTagLists ==
    {[i \in 1..Len(SharedTags) |-> Trade(i, <<9, 30>>, pnls[i], SharedTags[i])] :
        pnls \in [1..Len(SharedTags) -> SharedPnls]}

\* a block of trades at one time of day (none for <<>>), all with one P&L
HourBlock(time, count, pnl) == [i \in 1..count |-> Trade(1, time, pnl, <<>>)]
BlockCounts == {0, 4, 5}
BlockPnlValues == {-1, 1, 2}
TimedBlocks(time) ==
    {HourBlock(time, count, pnl) : count \in BlockCounts, pnl \in BlockPnlValues}
UntimedBlocks ==
    {HourBlock(<<>>, count, pnl) : count \in BlockCounts \cup {6}, pnl \in {-1, 1, 3}}

HourLists ==
    UNION {{a \o b \o c, c \o b \o a} :
        a \in TimedBlocks(<<9, 30>>), b \in TimedBlocks(<<14, 5>>), c \in UntimedBlocks}

\* forty trades, newest first; a plan gives the tags of the trade at a place
TagPlans == {"none", "tagged"}
PlannedTags(plan, i) ==
    IF plan = "tagged" /\ i \in 1..3 THEN Breakout
    ELSE IF plan = "tagged" /\ i \in 6..8 THEN Fomo
    ELSE <<>>
LongTaggedMixes == {<<14, 5, 0>>, <<5, 14, 0>>, <<14, 0, 0>>, <<0, 0, 0>>}
LongTaggedLists ==
    {[i \in 1..(2 * TREND_ANALYSIS_PERIOD) |->
        Trade(2 * TREND_ANALYSIS_PERIOD - i + 1, time,
              (BlockPnls(recent, TREND_ANALYSIS_PERIOD)
                   \o BlockPnls(older, TREND_ANALYSIS_PERIOD))[i],
              PlannedTags(plan, i))] :
        recent \in LongTaggedMixes, older \in LongTaggedMixes,
        plan \in TagPlans, time \in {<<>>, <<9, 30>>}}

TaggedLists ==
    ShortTaggedLists \cup SharedTagLists \cup HourLists \cup LongTaggedLists

InitTagged ==
    /\ trades \in TaggedLists
    /\ pc = "ready"
    /\ report = Null
    /\ streak = Null /\ gradedMetrics = Null /\ grade = Null
    /\ IdleView

SpecTagged == InitTagged /\ [][NextOffline]_vars

\* the trade has the value tag[2] in its category tag[1]
Carries(t, tag) ==
    \E k \in 1..Len(t.tags) :
        /\ t.tags[k].category = tag[1]
        /\ \E v \in 1..Len(t.tags[k].values) : t.tags[k].values[v] = tag[2]

Carrying(ts, tag) == SelectSeq(ts, LAMBDA t : Carries(t, tag))

EntryTags(entry) == {<<entry.category, entry.values[v]>> : v \in 1..Len(entry.values)}
TradeTagSet(t) == UNION {EntryTags(t.tags[k]) : k \in 1..Len(t.tags)}
CarriedTags(ts) == UNION {TradeTagSet(ts[i]) : i \in 1..Len(ts)}

\* C12: the statistics accumulated for each category:value key are the tally
\* over the trades that carry it: count is their number, pnl the sum of their
\* P&L, wins the number of them with a positive P&L; wins + losses <= count,
\* and the derived win rate lies within [0, 100].
C12_TagStatsMatchTally ==
    pc = "done" =>
        /\ {TagStats(trades)[k].tag : k \in 1..Len(TagStats(trades))} = CarriedTags(trades)
        /\ \A k \in 1..Len(TagStats(trades)) :
               /\ TagStats(trades)[k].count
                      = Len(Carrying(trades, TagStats(trades)[k].tag))
               /\ TagStats(trades)[k].pnl
                      = PnlTotal(Carrying(trades, TagStats(trades)[k].tag),
                                 Len(Carrying(trades, TagStats(trades)[k].tag)))
               /\ TagStats(trades)[k].wins
                      = WinCount(Carrying(trades, TagStats(trades)[k].tag))
               /\ TagStats(trades)[k].wins + TagStats(trades)[k].losses
                      <= TagStats(trades)[k].count
        /\ \A k \in 1..Len(SignificantTags(trades)) :
               /\ FGe(SignificantTags(trades)[k].winRate, Zero)
               /\ FLe(SignificantTags(trades)[k].winRate, FromInt(100))

\* no trade names a value twice within a category
NoRepeatedValue(ts) ==
    \A i \in 1..Len(ts) : \A k \in 1..Len(ts[i].tags) :
        \A v, w \in 1..Len(ts[i].tags[k].values) :
            ts[i].tags[k].values[v] = ts[i].tags[k].values[w] => v = w

\* the tags named by the report: in its tagPerformance lists and as the
\* related tags of its insights
ListedTags(list) == {list[k].tag : k \in 1..Len(list)}
ReportedTags(r) ==
    ListedTags(r.tagPerformance.profitable) \cup ListedTags(r.tagPerformance.unprofitable)
    \cup UNION {Elements(r.actionableInsights[k].relatedTags) :
                    k \in 1..Len(r.actionableInsights)}

PnlsOf(ts) == {ts[i].pnl : i \in 1..Len(ts)}
BreakoutTag == <<"strategy", "Breakout">>

\* C13: a tag is in the tagPerformance lists or the tag insights only if at
\* least MIN_TAG_TRADES trades carry it: two trades tagged strategy:Breakout
\* with P&L +50 and +100 leave the tag out, and with a third of +75 it is in
\* the profitable list with totalPnl 225, tradeCount 3 and winRate 100.
C13_ThreeTradesMakeATag ==
    pc = "done" =>
        /\ \A tag \in ReportedTags(Report) : Len(Carrying(trades, tag)) >= MIN_TAG_TRADES
        /\ (/\ Len(Carrying(trades, BreakoutTag)) = 2
            /\ PnlsOf(Carrying(trades, BreakoutTag)) = {50, 100})
               => BreakoutTag \notin ReportedTags(Report)
        /\ (/\ Len(Carrying(trades, BreakoutTag)) = 3
            /\ PnlsOf(Carrying(trades, BreakoutTag)) = {50, 100, 75})
               => \E k \in 1..Len(Report.tagPerformance.profitable) :
                      Report.tagPerformance.profitable[k]
                          = [tag |-> BreakoutTag, totalPnl |-> 225,
                             tradeCount |-> 3, winRate |-> FromInt(100)]

\* the tagPerformance entries of the significant tags that pass a test on
\* their total P&L
SignificantWith(ts, sign) ==
    {TagStatOf(SignificantTags(ts)[k]) :
        k \in {j \in 1..Len(SignificantTags(ts)) : Sign(SignificantTags(ts)[j].pnl) = sign}}

\* list holds, best first, the entries of `qualifying' that rank highest:
\* rank is totalPnl times sign, and at most 5 are held
TopOf(list, qualifying, sign) ==
    /\ Elements(list) \subseteq qualifying
    /\ Len(list) = Min(5, Cardinality(qualifying))
    /\ \A i, j \in 1..Len(list) : i # j => list[i].tag # list[j].tag
    /\ \A i \in 1..(Len(list) - 1) :
           sign * list[i].totalPnl >= sign * list[i + 1].totalPnl
    /\ \A out \in qualifying \ Elements(list) :
           \A i \in 1..Len(list) : sign * out.totalPnl <= sign * list[i].totalPnl

\* C14: profitable holds only significant tags with totalPnl > 0, in
\* descending order of totalPnl; unprofitable only significant tags with
\* totalPnl < 0, most negative first; each holds at most 5 entries, none left
\* out ranks ahead of one included, and no tag is in both lists.
C14_TopTagLists ==
    pc = "done" =>
        /\ TopOf(Report.tagPerformance.profitable, SignificantWith(trades, 1), 1)
        /\ TopOf(Report.tagPerformance.unprofitable, SignificantWith(trades, -1), -1)
        /\ ListedTags(Report.tagPerformance.profitable)
               \cap ListedTags(Report.tagPerformance.unprofitable) = {}

\* more than 5 profitable tags of different totals, one of them left out, a
\* tag of total 0 and an unprofitable one
C14_Witness ==
    /\ pc = "done"
    /\ Cardinality(SignificantWith(trades, 1)) > 5
    /\ Len(Report.tagPerformance.profitable) = 5
    /\ Report.tagPerformance.profitable[1].totalPnl
           > Report.tagPerformance.profitable[5].totalPnl
    /\ SignificantWith(trades, 0) # {}
    /\ Len(Report.tagPerformance.unprofitable) > 0

\* the extreme total P&L among tag statistics
MaxPnl(stats) == CHOOSE p \in {stats[k].pnl : k \in 1..Len(stats)} :
                     \A k \in 1..Len(stats) : stats[k].pnl <= p
MinPnl(stats) == CHOOSE p \in {stats[k].pnl : k \in 1..Len(stats)} :
                     \A k \in 1..Len(stats) : stats[k].pnl >= p
MistakeTags(stats) == SelectSeq(stats, LAMBDA st : st.tag[1] = "mistakes")

\* what an insight is about: its topic, its text and the total P&L and
\* category of the tag it names (0 and "" when it names none)
InsightGist(i) ==
    [topic |-> i.topic, key |-> i.pattern.key,
     pnl |-> IF i.relatedTags = <<>> THEN 0 ELSE i.pattern.params.pnl,
     category |-> IF i.relatedTags = <<>> THEN "" ELSE i.relatedTags[1][1]]

\* the insights the rule gives for tag statistics and the two later analyses
ExpectedGists(stats, trend, golden) ==
    (IF stats # <<>> /\ MaxPnl(stats) > 0
     THEN <<[topic |-> "strategy", key |-> "aiInsights.offline.strengthTag",
             pnl |-> MaxPnl(stats)]>> ELSE <<>>)
    \o (IF stats # <<>> /\ MinPnl(stats) < 0
        THEN <<[topic |-> "strategy", key |-> "aiInsights.offline.weaknessTag",
                pnl |-> MinPnl(stats)]>> ELSE <<>>)
    \o (IF MistakeTags(stats) # <<>> /\ MinPnl(MistakeTags(stats)) < 0
        THEN <<[topic |-> "risk", key |-> "aiInsights.offline.patternMistake",
                pnl |-> MinPnl(MistakeTags(stats))]>> ELSE <<>>)
    \o (IF trend # Null
        THEN <<[topic |-> "performance", key |-> "aiInsights.offline.trendPattern",
                pnl |-> 0]>> ELSE <<>>)
    \o (IF golden # Null
        THEN <<[topic |-> "timing", key |-> "aiInsights.offline.goldenHourPattern",
                pnl |-> 0]>> ELSE <<>>)

\* C15: actionableInsights holds at most 5 entries, in this order and each
\* only when its condition holds: the best significant tag if its total is
\* positive (strategy), the worst if its total is negative (strategy), the
\* worst significant mistakes tag if its total is negative (risk), the trend
\* degradation (performance), the golden hour (timing).
C15_InsightOrder ==
    pc = "done" =>
        /\ Len(Report.actionableInsights) <= 5
        /\ [k \in 1..Len(Report.actionableInsights) |->
               [topic |-> Report.actionableInsights[k].topic,
                key |-> Report.actionableInsights[k].pattern.key,
                pnl |-> InsightGist(Report.actionableInsights[k]).pnl]]
               = ExpectedGists(SignificantTags(trades),
                               analyzePerformanceTrend(trades, Report.keyMetrics.winRate,
                                                       Report.keyMetrics.profitFactor),
                               findGoldenHour(trades))
        /\ \A k \in 1..Len(Report.actionableInsights) :
               Report.actionableInsights[k].topic = "risk"
                   => InsightGist(Report.actionableInsights[k]).category = "mistakes"

\* all five insights at once
C15_Witness ==
    /\ pc = "done"
    /\ [k \in 1..Len(Report.actionableInsights) |-> Report.actionableInsights[k].topic]
           = <<"strategy", "strategy", "risk", "performance", "timing">>

\* the insight findGoldenHour contributed to the report, if any
GoldenInsights(r) == SelectSeq(r.actionableInsights, LAMBDA i : i.topic = "timing")

HoursOfDay == 0..23
HourBucket(ts, h) == SelectSeq(ts, LAMBDA t : t.time # <<>> /\ t.time[1] = h)
EligibleHours(ts) == {h \in HoursOfDay : Len(HourBucket(ts, h)) >= 5}

\* the average P&L of bucket g is at most that of bucket h, by cross
\* multiplication of the totals and the counts
AverageAtMost(ts, g, h) ==
    PnlTotal(HourBucket(ts, g), Len(HourBucket(ts, g))) * Len(HourBucket(ts, h))
        <= PnlTotal(HourBucket(ts, h), Len(HourBucket(ts, h))) * Len(HourBucket(ts, g))

BestHours(ts) ==
    {h \in EligibleHours(ts) : \A g \in EligibleHours(ts) : AverageAtMost(ts, g, h)}

\* C16: findGoldenHour returns an insight if and only if, among the buckets
\* of the hours 0..23 that hold at least 5 trades, the highest average P&L is
\* positive, and the hour it reports is a bucket with that highest average.
C16_GoldenHourRule ==
    pc = "done" =>
        /\ (GoldenInsights(Report) # <<>>)
               <=> (\E h \in BestHours(trades) :
                        PnlTotal(HourBucket(trades, h), Len(HourBucket(trades, h))) > 0)
        /\ GoldenInsights(Report) # <<>>
               => \E h \in BestHours(trades) :
                      GoldenInsights(Report)[1].pattern.params.hour = <<h>>

Timed(ts) == SelectSeq(ts, LAMBDA t : t.time # <<>>)

\* C17: the trades with no time are in no bucket: with or without them the
\* same golden hour is reported, or none.
C17_UntimedTradesIgnored ==
    pc = "done" =>
        [k \in 1..Len(GoldenInsights(Report)) |->
            GoldenInsights(Report)[k].pattern.params.hour]
        = [k \in 1..Len(findGoldenHour(Timed(trades))) |->
            findGoldenHour(Timed(trades))[k].pattern.params.hour]

(***************************************************************************)
(* CIRCADIAN INSIGHTS: the component components/CircadianInsights, which    *)
(* sorts the trades into five windows of the day by their time and shows a  *)
(* profit card for its best window and a caution card for its worst.  A     *)
(* time "HH:mm" is the pair <<HH, mm>>: the strings compare as the pairs do. *)
(***************************************************************************)
MIN_TRADES_FOR_INSIGHT == 3

TimeWindow(name, start, end) == [name |-> name, start |-> start, end |-> end]
TIME_WINDOWS ==
    <<TimeWindow("openingBell", <<8, 0>>, <<10, 0>>),
      TimeWindow("midMorning", <<10, 0>>, <<12, 0>>),
      TimeWindow("lunchLull", <<12, 0>>, <<14, 0>>),
      TimeWindow("afternoonSession", <<14, 0>>, <<16, 0>>),
      TimeWindow("closingBell", <<16, 0>>, <<18, 0>>)>>

\* a >= b of two time strings
TimeGe(a, b) == a[1] > b[1] \/ (a[1] = b[1] /\ a[2] >= b[2])

\* TIME_WINDOWS.find(w => trade.time >= w.start && trade.time < w.end): the
\* place of the first such window, 0 for undefined
WindowOf(time) ==
    IF \E k \in 1..Len(TIME_WINDOWS) :
           TimeGe(time, TIME_WINDOWS[k].start) /\ ~TimeGe(time, TIME_WINDOWS[k].end)
    THEN CHOOSE k \in 1..Len(TIME_WINDOWS) :
           /\ TimeGe(time, TIME_WINDOWS[k].start) /\ ~TimeGe(time, TIME_WINDOWS[k].end)
           /\ \A j \in 1..(k - 1) :
                  ~(TimeGe(time, TIME_WINDOWS[j].start)
                      /\ ~TimeGe(time, TIME_WINDOWS[j].end))
    ELSE 0

\* the trades the forEach adds to the window at place k
RECURSIVE TradesOfWindow(_, _)
TradesOfWindow(ts, k) ==
    IF ts = <<>> THEN <<>>
    ELSE (IF Head(ts).time # <<>> /\ WindowOf(Head(ts).time) = k
          THEN <<Head(ts)>> ELSE <<>>) \o TradesOfWindow(Tail(ts), k)

\* the winCount the forEach reaches
RECURSIVE WindowWins(_)
WindowWins(ts) ==
    IF ts = <<>> THEN 0
    ELSE (IF Head(ts).pnl > 0 THEN 1 ELSE 0) + WindowWins(Tail(ts))

WindowStats(w, its) ==
    [name |-> w.name, start |-> w.start, end |-> w.end,
     totalPnl |-> SumPnl(its), winCount |-> WindowWins(its), tradeCount |-> Len(its),
     winRate |-> IF Len(its) > 0 THEN Percentage(WindowWins(its), Len(its)) ELSE Zero]

timeWindowStats(ts) ==
    [k \in 1..Len(TIME_WINDOWS) |-> WindowStats(TIME_WINDOWS[k], TradesOfWindow(ts, k))]

\* Array.prototype.filter
RECURSIVE FilterWindows(_, _)
FilterWindows(ws, keep) ==
    IF ws = <<>> THEN <<>>
    ELSE (IF Head(ws).name \in keep THEN <<Head(ws)>> ELSE <<>>)
         \o FilterWindows(Tail(ws), keep)

\* list[0] || null
FirstOrNull(list) == IF list = <<>> THEN Null ELSE Some(list[1])

validWindows(stats) ==
    FilterWindows(stats, {stats[k].name : k \in {j \in 1..Len(stats) :
                              stats[j].tradeCount >= MIN_TRADES_FOR_INSIGHT}})

\* .sort((a, b) => b.winRate - a.winRate)
WinRateDescending(ws) ==
    ArraySort(ws, [i, j \in 1..Len(ws) |-> FCmp(ws[j].winRate, ws[i].winRate)])

\* .sort((a, b) => a.totalPnl - b.totalPnl)
TotalPnlAscending(ws) ==
    ArraySort(ws, [i, j \in 1..Len(ws) |-> ws[i].totalPnl - ws[j].totalPnl])

bestWindow(valid) ==
    FirstOrNull(WinRateDescending(
        FilterWindows(valid, {valid[k].name : k \in {j \in 1..Len(valid) :
                                  valid[j].totalPnl > 0}})))

worstWindow(valid) ==
    FirstOrNull(TotalPnlAscending(
        FilterWindows(valid, {valid[k].name : k \in {j \in 1..Len(valid) :
                                  FLt(valid[j].winRate, FromInt(50))
                                      \/ valid[j].totalPnl < 0}})))

\* the caution card is rendered although its window is that of the profit card
CautionCard_sameWindow(best, worst) == worst

\* insights.worstWindow && insights.worstWindow !== insights.bestWindow: the
\* two are elements of one timeWindowStats, the same object when the same window
CautionCard(best, worst) == IF worst # Null /\ worst # best THEN worst ELSE Null

\* what the component renders: the unlock text, or the cards
Rendered(stats, best, worst) ==
    [stats |-> stats, bestWindow |-> best, worstWindow |-> worst,
     unlock |-> best = Null /\ worst = Null,
     profitCard |-> best,
     cautionCard |-> CautionCard(best, worst)]

CircadianInsights(ts) ==
    Rendered(timeWindowStats(ts),
             IF validWindows(timeWindowStats(ts)) = <<>> THEN Null
             ELSE bestWindow(validWindows(timeWindowStats(ts))),
             IF validWindows(timeWindowStats(ts)) = <<>> THEN Null
             ELSE worstWindow(validWindows(timeWindowStats(ts))))

\* wins trades of P&L winPnl and then losses trades of P&L -20, all at time
SessionBlock(time, wins, losses, winPnl) ==
    [i \in 1..(wins + losses) |->
        Trade(1, time, (IF i <= wins THEN winPnl ELSE -20), <<>>)]
SessionShapes == {<<0, 0>>, <<2, 0>>, <<3, 0>>, <<1, 2>>, <<2, 1>>, <<0, 3>>, <<1, 3>>}
SessionBlocks(time) ==
    {SessionBlock(time, shape[1], shape[2], winPnl) :
        shape \in SessionShapes, winPnl \in {10, 50}}

\* trades at the edges of the windows and trades with no time
EdgeTimes == {<<>>, <<7, 59>>, <<8, 0>>, <<17, 59>>, <<18, 0>>}
EdgeBlocks == {<<>>} \cup {SessionBlock(time, 1, 2, 50) : time \in EdgeTimes}

CircadianLists ==
    UNION {{a \o b \o c, c \o b \o a} :
        a \in SessionBlocks(<<9, 59>>), b \in SessionBlocks(<<10, 0>>), c \in EdgeBlocks}

InitCircadian ==
    /\ trades \in CircadianLists
    /\ pc = "ready"
    /\ circadian = Null
    /\ streak = Null /\ report = Null /\ gradedMetrics = Null /\ grade = Null
    /\ isLoading = FALSE /\ analysisResult = Null /\ error = Null /\ call = Null
    /\ IdleImport /\ IdleJournal /\ IdleSummary

\* the component is rendered with trades
RenderCircadian ==
    /\ pc = "ready"
    /\ circadian' = Some(CircadianInsights(trades))
    /\ pc' = "done"
    /\ UNCHANGED <<trades, streak, report, gradedMetrics, grade,
                   isLoading, analysisResult, error, call,
                   file, imported, store, ops, calls, generated, rethrown, isLoaded, tagSummary>>

NextCircadian == RenderCircadian

SpecCircadian == InitCircadian /\ [][NextCircadian]_vars

\* the places of the windows whose start <= time < end
WindowsAt(time) ==
    {k \in 1..Len(TIME_WINDOWS) :
        TimeGe(time, TIME_WINDOWS[k].start) /\ ~TimeGe(time, TIME_WINDOWS[k].end)}

\* the places in ts of its timed trades within the window at place k
InWindow(ts, k) == {i \in 1..Len(ts) : ts[i].time # <<>> /\ k \in WindowsAt(ts[i].time)}

\* a window with trades at places its stands ahead of one with trades at
\* places others in win rate, no window ahead of it in P&L
RateAtLeast(ts, its, others) ==
    Cardinality({i \in its : ts[i].pnl > 0}) * Cardinality(others)
        >= Cardinality({i \in others : ts[i].pnl > 0}) * Cardinality(its)
PnlOver(ts, its) == SumPnl([k \in 1..Cardinality(its) |->
    ts[CHOOSE i \in its : Cardinality({j \in its : j < i}) = k - 1]])

ValidPlaces(ts) ==
    {k \in 1..Len(TIME_WINDOWS) : Cardinality(InWindow(ts, k)) >= MIN_TRADES_FOR_INSIGHT}
BestCandidates(ts) == {k \in ValidPlaces(ts) : PnlOver(ts, InWindow(ts, k)) > 0}
WorstCandidates(ts) ==
    {k \in ValidPlaces(ts) :
        \/ 2 * Cardinality({i \in InWindow(ts, k) : ts[i].pnl > 0})
               < Cardinality(InWindow(ts, k))
        \/ PnlOver(ts, InWindow(ts, k)) < 0}
PlaceOf(window) == CHOOSE k \in 1..Len(TIME_WINDOWS) : TIME_WINDOWS[k].name = window.name

\* C18: a timed trade is within at most one window, and each window counts
\* the trades with start <= time < end.  Among the windows with at least
\* MIN_TRADES_FOR_INSIGHT trades the best is one of the highest win rate among
\* those of positive total P&L, the worst one of the lowest total P&L among
\* those of win rate under 50 or negative total P&L, and the caution card is
\* never shown for the window of the profit card.
C18_WindowsAndCards ==
    circadian # Null =>
        /\ \A i \in 1..Len(trades) :
               trades[i].time # <<>> => Cardinality(WindowsAt(trades[i].time)) <= 1
        /\ \A k \in 1..Len(TIME_WINDOWS) :
               /\ circadian[1].stats[k].tradeCount = Cardinality(InWindow(trades, k))
               /\ circadian[1].stats[k].totalPnl = PnlOver(trades, InWindow(trades, k))
        /\ IF BestCandidates(trades) = {} THEN circadian[1].bestWindow = Null
           ELSE /\ circadian[1].bestWindow # Null
                /\ PlaceOf(circadian[1].bestWindow[1]) \in BestCandidates(trades)
                /\ \A k \in BestCandidates(trades) :
                       RateAtLeast(trades,
                           InWindow(trades, PlaceOf(circadian[1].bestWindow[1])),
                           InWindow(trades, k))
        /\ IF WorstCandidates(trades) = {} THEN circadian[1].worstWindow = Null
           ELSE /\ circadian[1].worstWindow # Null
                /\ PlaceOf(circadian[1].worstWindow[1]) \in WorstCandidates(trades)
                /\ \A k \in WorstCandidates(trades) :
                       circadian[1].worstWindow[1].totalPnl
                           <= PnlOver(trades, InWindow(trades, k))
        /\ circadian[1].profitCard = circadian[1].bestWindow
        /\ circadian[1].cautionCard # Null =>
               /\ circadian[1].cautionCard = circadian[1].worstWindow
               /\ circadian[1].profitCard # Null =>
                      circadian[1].cautionCard[1].name # circadian[1].profitCard[1].name

\* one window is both the best and the worst (its total P&L positive, its win
\* rate under 50), so only the profit card is shown; a trade with no time and
\* trades outside every window were among the trades
C18_Witness ==
    /\ circadian # Null
    /\ circadian[1].bestWindow # Null
    /\ circadian[1].worstWindow = circadian[1].bestWindow
    /\ circadian[1].cautionCard = Null
    /\ \E i \in 1..Len(trades) : trades[i].time = <<>>

(***************************************************************************)
(* THE ENRICHMENT SERVICE: analyzeTradingPerformance of services/           *)
(* geminiService.  The reply of generateContent is a rejection, a text that *)
(* is no JSON, or the text of a JSON value; a JSON object is the function   *)
(* from its keys to their values.                                           *)
(***************************************************************************)
MIN_TRADES_FOR_ANALYSIS == 20

\* analysisSchema.required
RequiredKeys ==
    {"overallSummary", "strengths", "weaknesses", "actionableInsights", "keyObservations"}

Reply(outcome, value) == [outcome |-> outcome, value |-> value]

Thrown(message) == [ok |-> FALSE, message |-> message, value |-> <<>>]
Returned(value) == [ok |-> TRUE, message |-> "", value |-> value]

\* JSON.parse(jsonString) inside the try: the value, or the error thrown
JSONParse(reply) ==
    IF reply.outcome = "json" THEN Returned(reply.value)
    ELSE Thrown("The AI returned an unexpected response format. Please try again.")

\* new Date(trade.date + 'T00:00:00').getDay(), dates being numbered by day
DayOfWeek(date) == date % 7

\* Object.entries(trade.tags).map(...).flat() of the payload: an array gives a
\* string for each of its values, the single string of confidence gives one
\* string whatever it holds
RECURSIVE PayloadTags(_)
PayloadTags(entries) ==
    IF entries = <<>> THEN <<>>
    ELSE (IF Head(entries).category = "confidence"
          THEN <<<<"confidence", IF Head(entries).values = <<>> THEN ""
                                 ELSE Head(entries).values[1]>>>>
          ELSE [k \in 1..Len(Head(entries).values) |->
                   <<Head(entries).category, Head(entries).values[k]>>])
         \o PayloadTags(Tail(entries))

\* the projection with the notes of the trade kept
SimplifiedTrade_withNotes(trade) ==
    [pnl |-> trade.pnl, pair |-> trade.pair, type |-> trade.type,
     rating |-> trade.rating, dayOfWeek |-> DayOfWeek(trade.date),
     tags |-> PayloadTags(trade.tags), notes |-> trade.notes]

\* one element of simplifiedTrades
SimplifiedTrade(trade) ==
    [pnl |-> trade.pnl, pair |-> trade.pair, type |-> trade.type,
     rating |-> trade.rating, dayOfWeek |-> DayOfWeek(trade.date),
     tags |-> PayloadTags(trade.tags)]

\* the trades put into the contents of the request (the lists of the model
\* are far shorter than MAX_TRADES_FOR_ANALYSIS); no request is made for
\* fewer than MIN_TRADES_FOR_ANALYSIS trades
RequestPayload(ts) ==
    IF Len(ts) < MIN_TRADES_FOR_ANALYSIS THEN Null
    ELSE Some([i \in 1..Len(ts) |-> SimplifiedTrade(ts[i])])

\* how the promise of analyzeTradingPerformance(trades) settles
analyzeTradingPerformance(ts, reply) ==
    IF Len(ts) < MIN_TRADES_FOR_ANALYSIS
    THEN Thrown("A minimum of 20 trades is required for a meaningful analysis.")
    ELSE IF reply.outcome = "rejected" THEN Thrown("generateContent rejected")
    ELSE JSONParse(reply)

(***************************************************************************)
(* THE ORCHESTRATOR: handleAnalyze of components/AIAnalysisView.tsx.        *)
(***************************************************************************)
\* { ...a, ...b }
Spread(a, b) ==
    [k \in (DOMAIN a) \cup (DOMAIN b) |-> IF k \in DOMAIN b THEN b[k] ELSE a[k]]

\* the merge with the response spread last
MergeResult_responseLast(offlineResult, aiResult) ==
    Spread(Spread(offlineResult,
                  [keyMetrics |-> offlineResult.keyMetrics,
                   performanceGrade |-> offlineResult.performanceGrade,
                   tagPerformance |-> offlineResult.tagPerformance]),
           aiResult)

\* { ...offlineResult, ...aiResult, keyMetrics, performanceGrade, tagPerformance }
MergeResult(offlineResult, aiResult) ==
    Spread(Spread(offlineResult, aiResult),
           [keyMetrics |-> offlineResult.keyMetrics,
            performanceGrade |-> offlineResult.performanceGrade,
            tagPerformance |-> offlineResult.tagPerformance])

\* the handler with the inner try/catch left out: a failed enrichment reaches
\* the outer catch
AfterEnrichment_outerCatch(offlineResult, settled) ==
    IF settled.ok
    THEN [analysisResult |-> Some(MergeResult(offlineResult, settled.value)),
          error |-> Null, isLoading |-> FALSE]
    ELSE [analysisResult |-> Null, error |-> Some(settled.message), isLoading |-> FALSE]

\* the handler showing the message of the enrichment beside the fallback
AfterEnrichment_errorShown(offlineResult, settled) ==
    IF settled.ok
    THEN [analysisResult |-> Some(MergeResult(offlineResult, settled.value)),
          error |-> Null, isLoading |-> FALSE]
    ELSE [analysisResult |-> Some(offlineResult), error |-> Some(settled.message),
          isLoading |-> FALSE]

\* the state the handler sets once the awaited call has settled: finalResult
\* is the merge, or the offline result when the call threw
AfterEnrichment(offlineResult, settled) ==
    LET finalResult == IF settled.ok THEN MergeResult(offlineResult, settled.value)
                       ELSE offlineResult
    IN  [analysisResult |-> Some(finalResult), error |-> Null, isLoading |-> FALSE]

(***************************************************************************)
(* The view rendered with a trade list on either side of the minimum the    *)
(* service requires.  The JSON object of a reply holds any subset of the    *)
(* keys of ResponseKeys, each with the value ResponseValue gives it: a text *)
(* of the service is the record of that text, so that it differs from       *)
(* every translated text of the offline analysis.                           *)
(***************************************************************************)
MaxViewTrades == 20
ViewSizes == (MIN_TRADES_FOR_ANALYSIS - 1)..MaxViewTrades
ViewMixes == {<<14, 5, 0>>, <<5, 14, 0>>, <<0, 0, 0>>}
\* the fields of a trade that the analyses do not read.  A journal trade has
\* notes and photos, another id and no time; the third kind differs from the
\* plain one in its pair.
TradeDetails == {"plain", "journal", "otherPair"}
WithDetails(ts, details) ==
    [i \in 1..Len(ts) |->
        [date |-> ts[i].date,
         time |-> IF details = "journal" THEN <<>> ELSE ts[i].time,
         pnl |-> ts[i].pnl,
         tags |-> PlannedTags("tagged", i),
         id |-> IF details = "journal" THEN Len(ts) + i ELSE i,
         pair |-> IF details = "otherPair" THEN "GBPUSD" ELSE "EURUSD",
         type |-> "long",
         rating |-> 4,
         notes |-> IF details = "journal" THEN "a note" ELSE "",
         photos |-> IF details = "journal" THEN <<"a photo">> ELSE <<>>]]

ViewLists ==
    {WithDetails(DatedTrades(BlockPnls(mix, size), "newestFirst"), "plain") :
        mix \in ViewMixes, size \in ViewSizes}
    \cup {WithDetails(DatedTrades(BlockPnls(<<14, 5, 0>>, MIN_TRADES_FOR_ANALYSIS),
                                 "newestFirst"), details) :
              details \in TradeDetails}

AuthoritativeKeys == {"keyMetrics", "performanceGrade", "tagPerformance"}
ResponseKeys == RequiredKeys \cup AuthoritativeKeys \cup {"disclaimer"}

AiText(text) == [text |-> text]

ResponseValue(key) ==
    CASE key = "overallSummary" -> AiText("summary of the service")
      [] key = "strengths" -> <<AiText("strength of the service")>>
      [] key = "weaknesses" -> <<AiText("weakness of the service")>>
      [] key = "actionableInsights" ->
            <<[topic |-> "strategy", pattern |-> AiText("pattern of the service"),
               recommendation |-> "recommendation of the service",
               relatedTags |-> <<>>]>>
      [] key = "keyObservations" ->
            <<[topic |-> "general", text |-> AiText("observation of the service")]>>
      [] key = "keyMetrics" ->
            [consistencyScore |-> 10, profitFactor |-> Infinity,
             winRate |-> FromInt(100), totalPnl |-> 1000, tradeCount |-> 1000,
             avgWin |-> FromInt(1), avgLoss |-> Zero]
      [] key = "performanceGrade" -> [grade |-> "A", summary |-> "grade of the service"]
      [] key = "tagPerformance" ->
            [profitable |-> <<[tag |-> <<"strategy", "service">>, totalPnl |-> 1000,
                               tradeCount |-> 1000, winRate |-> FromInt(100)]>>,
             unprofitable |-> <<>>]
      [] OTHER -> AiText("not financial advice")

ResponseObject(keys) == [k \in keys |-> ResponseValue(k)]

Init ==
    /\ trades \in ViewLists
    /\ pc = "ready"
    /\ isLoading = FALSE /\ analysisResult = Null /\ error = Null
    /\ call = Null
    /\ report = Null
    /\ streak = Null /\ gradedMetrics = Null /\ grade = Null
    /\ circadian = Null
    /\ IdleImport /\ IdleJournal /\ IdleSummary

\* handleAnalyze up to its await: the state is reset, the offline analysis is
\* run on the trades of this render and the enrichment is called, which
\* builds the payload of its request from them.  The
\* buttons that call it are rendered when nothing is loading and no result is
\* shown; the handler itself does not look at the number of trades.
HandleAnalyze ==
    /\ ~isLoading /\ analysisResult = Null
    /\ isLoading' = TRUE
    /\ error' = Null
    /\ analysisResult' = Null
    /\ report' = Some(analyzeTradesOffline(trades))
    /\ call' = Some([trades |-> trades, payload |-> RequestPayload(trades),
                     reply |-> Null])
    /\ pc' = "awaiting"
    /\ UNCHANGED <<file, imported, store, ops, calls, generated, rethrown, isLoaded, tagSummary,
                   circadian, trades, streak, gradedMetrics, grade>>

\* the awaited call settles with reply, and the handler runs to its end
Settle(reply) ==
    /\ isLoading /\ call # Null
    /\ LET after == AfterEnrichment(report[1],
                                    analyzeTradingPerformance(call[1].trades, reply))
       IN  /\ analysisResult' = after.analysisResult
           /\ error' = after.error
           /\ isLoading' = after.isLoading
    /\ call' = Some([trades |-> call[1].trades, payload |-> call[1].payload,
                     reply |-> Some(reply)])
    /\ pc' = "done"
    /\ UNCHANGED <<file, imported, store, ops, calls, generated, rethrown, isLoaded, tagSummary,
                   circadian, trades, report, streak, gradedMetrics, grade>>

\* fewer trades than the service requires: it throws before any request
ServiceRefuses ==
    /\ call # Null /\ Len(call[1].trades) < MIN_TRADES_FOR_ANALYSIS
    /\ Settle(Reply("none", <<>>))

\* generateContent rejects: no credentials, no network
RequestRejected ==
    /\ call # Null /\ Len(call[1].trades) >= MIN_TRADES_FOR_ANALYSIS
    /\ Settle(Reply("rejected", <<>>))

\* generateContent answers with a text that is no JSON
ReplyUnparseable ==
    /\ call # Null /\ Len(call[1].trades) >= MIN_TRADES_FOR_ANALYSIS
    /\ Settle(Reply("text", <<>>))

\* generateContent answers with the text of a JSON object
ReplyParsed ==
    /\ call # Null /\ Len(call[1].trades) >= MIN_TRADES_FOR_ANALYSIS
    /\ \E keys \in SUBSET ResponseKeys : Settle(Reply("json", ResponseObject(keys)))

Next ==
    \/ HandleAnalyze
    \/ ServiceRefuses
    \/ RequestRejected
    \/ ReplyUnparseable
    \/ ReplyParsed

Spec == Init /\ [][Next]_vars

LastReply == call[1].reply[1]
Settled == pc = "done" /\ call # Null /\ call[1].reply # Null
Shown == analysisResult[1]

\* C1: when the enrichment succeeds with an object, whatever keys it carries,
\* the stored result has the keyMetrics, performanceGrade and tagPerformance
\* of the offline result of the same trades.
C1_AuthoritativeMetricsKept ==
    Settled /\ LastReply.outcome = "json" =>
        /\ analysisResult # Null
        /\ Shown.keyMetrics = analyzeTradesOffline(call[1].trades).keyMetrics
        /\ Shown.performanceGrade = analyzeTradesOffline(call[1].trades).performanceGrade
        /\ Shown.tagPerformance = analyzeTradesOffline(call[1].trades).tagPerformance

\* a response carrying its own three authoritative fields, none of which is
\* in the stored result, next to a summary that is
C1_Witness ==
    /\ Settled /\ LastReply.outcome = "json"
    /\ AuthoritativeKeys \cup {"overallSummary"} \subseteq DOMAIN LastReply.value
    /\ Shown.overallSummary = LastReply.value.overallSummary
    /\ \A k \in AuthoritativeKeys : Shown[k] # LastReply.value[k] /\ Shown[k] = Report[k]

\* C2: when the enrichment call rejects or throws, the stored result is the
\* offline result itself and error stays null.
C2_FailureFallsBack ==
    Settled /\ LastReply.outcome # "json" =>
        /\ analysisResult = Some(analyzeTradesOffline(call[1].trades))
        /\ error = Null

\* the service refused a list of fewer than MIN_TRADES_FOR_ANALYSIS trades
C2_Witness ==
    /\ Settled /\ LastReply.outcome = "none"
    /\ Len(call[1].trades) < MIN_TRADES_FOR_ANALYSIS
    /\ analysisResult = report /\ error = Null /\ ~isLoading

HasExpectedShape(value) == RequiredKeys \subseteq DOMAIN value

\* C3: a response that parses but lacks a required field is treated as a
\* failure: the stored result is the offline result in every field.
C3_MalformedIsFailure ==
    Settled /\ LastReply.outcome = "json" /\ ~HasExpectedShape(LastReply.value) =>
        analysisResult = Some(analyzeTradesOffline(call[1].trades))

\* the fields of a trade the payload may depend on
Projection(t) ==
    [pnl |-> t.pnl, pair |-> t.pair, type |-> t.type, rating |-> t.rating,
     dayOfWeek |-> DayOfWeek(t.date), tags |-> PayloadTags(t.tags)]

SameProjection(a, b) ==
    Len(a) = Len(b) /\ \A i \in 1..Len(a) : Projection(a[i]) = Projection(b[i])

PayloadFields == {"pnl", "pair", "type", "rating", "dayOfWeek", "tags"}

\* C19: the payload sent depends only on each trade's pnl, pair, type,
\* rating, day of week and flattened tag strings: every list that agrees
\* with the trades on these, whatever its notes, photos, ids and times, gets
\* the same payload, and no element of a payload has a field beyond them.
C19_PayloadIsProjection ==
    call # Null /\ call[1].payload # Null =>
        /\ \A other \in ViewLists :
               SameProjection(other, call[1].trades)
                   => RequestPayload(other) = call[1].payload
        /\ \A i \in 1..Len(call[1].payload[1]) :
               DOMAIN call[1].payload[1][i] = PayloadFields

\* a payload sent for trades with notes and photos, the same as that of the
\* list without them
C19_Witness ==
    /\ call # Null /\ call[1].payload # Null
    /\ \E i \in 1..Len(call[1].trades) :
           call[1].trades[i].notes # "" /\ call[1].trades[i].photos # <<>>
    /\ \E other \in ViewLists :
           /\ other # call[1].trades
           /\ SameProjection(other, call[1].trades)
           /\ RequestPayload(other) = call[1].payload

UpperCaseLetters == "ABCDEFGHIJKLMNOPQRSTUVWXYZ"
LowerCaseLetters == "abcdefghijklmnopqrstuvwxyz"
Digits == "0123456789"

\* the characters of s
CharsOf(s) == {SubSeq(s, i, i) : i \in 1..Len(s)}

\* String.prototype.indexOf(c) from place i on, counted from 1; 0 for -1
RECURSIVE IndexFrom(_, _, _)
IndexFrom(s, c, i) ==
    IF i > Len(s) THEN 0
    ELSE IF SubSeq(s, i, i) = c THEN i
    ELSE IndexFrom(s, c, i + 1)
IndexIn(s, c) == IndexFrom(s, c, 1)

\* String.prototype.lastIndexOf(c) from place i down, counted from 1; 0 for -1
RECURSIVE LastIndexFrom(_, _, _)
LastIndexFrom(s, c, i) ==
    IF i < 1 THEN 0
    ELSE IF SubSeq(s, i, i) = c THEN i
    ELSE LastIndexFrom(s, c, i - 1)
LastIndexIn(s, c) == LastIndexFrom(s, c, Len(s))

\* the lower-case letter of each upper-case letter, and the reverse
LowerOf ==
    [c \in CharsOf(UpperCaseLetters) |->
        SubSeq(LowerCaseLetters, IndexIn(UpperCaseLetters, c), IndexIn(UpperCaseLetters, c))]
UpperOf ==
    [c \in CharsOf(LowerCaseLetters) |->
        SubSeq(UpperCaseLetters, IndexIn(LowerCaseLetters, c), IndexIn(LowerCaseLetters, c))]
DigitOf == [c \in CharsOf(Digits) |-> IndexIn(Digits, c) - 1]

RECURSIVE toLowerCase(_)
toLowerCase(s) ==
    IF s = "" THEN ""
    ELSE (IF Head(s) \in DOMAIN LowerOf THEN LowerOf[Head(s)] ELSE Head(s))
         \o toLowerCase(Tail(s))

RECURSIVE toUpperCase(_)
toUpperCase(s) ==
    IF s = "" THEN ""
    ELSE (IF Head(s) \in DOMAIN UpperOf THEN UpperOf[Head(s)] ELSE Head(s))
         \o toUpperCase(Tail(s))

\* String.prototype.trim, the white space of the model being the space
RECURSIVE trim(_)
trim(s) ==
    IF s = "" THEN ""
    ELSE IF Head(s) = " " THEN trim(Tail(s))
    ELSE IF SubSeq(s, Len(s), Len(s)) = " " THEN trim(SubSeq(s, 1, Len(s) - 1))
    ELSE s

\* String.prototype.includes
includes(s, part) ==
    \E i \in 1..(Len(s) - Len(part) + 1) : SubSeq(s, i, i + Len(part) - 1) = part

\* String.prototype.split(separator) for a separator of one character, the
\* part under way being current
RECURSIVE SplitFrom(_, _, _)
SplitFrom(s, separator, current) ==
    IF s = "" THEN <<current>>
    ELSE IF Head(s) = separator
         THEN <<current>> \o SplitFrom(Tail(s), separator, "")
         ELSE SplitFrom(Tail(s), separator, current \o Head(s))
split(s, separator) == SplitFrom(s, separator, "")

\* Array.prototype.join
RECURSIVE join(_, _)
join(parts, separator) ==
    IF parts = <<>> THEN ""
    ELSE IF Len(parts) = 1 THEN parts[1]
    ELSE parts[1] \o separator \o join(Tail(parts), separator)

\* s.replace(/[chars]/g, by): every character of s that is in the set chars becomes
\* by; with by = "" it is removed
RECURSIVE ReplaceEach(_, _, _)
ReplaceEach(s, chars, by) ==
    IF s = "" THEN ""
    ELSE (IF Head(s) \in chars THEN by ELSE Head(s))
         \o ReplaceEach(Tail(s), chars, by)

\* s.replace(/[^chars]/g, ''): the characters of s that are in the set chars
RECURSIVE KeepOnly(_, _)
KeepOnly(s, chars) ==
    IF s = "" THEN ""
    ELSE (IF Head(s) \in chars THEN Head(s) ELSE "")
         \o KeepOnly(Tail(s), chars)

\* s.replace(c, by) with a string pattern: the first occurrence only
ReplaceFirst(s, c, by) ==
    IF IndexIn(s, c) = 0 THEN s
    ELSE SubSeq(s, 1, IndexIn(s, c) - 1) \o by \o SubSeq(s, IndexIn(s, c) + 1, Len(s))

\* the longest prefix of s made of digits
RECURSIVE DigitsPrefix(_)
DigitsPrefix(s) ==
    IF s = "" \/ Head(s) \notin DOMAIN DigitOf THEN ""
    ELSE Head(s) \o DigitsPrefix(Tail(s))

\* the number a string of digits writes, n being the number read so far
RECURSIVE DigitsValue(_, _)
DigitsValue(s, n) ==
    IF s = "" THEN n
    ELSE DigitsValue(Tail(s), 10 * n + DigitOf[Head(s)])

RECURSIVE PowerOfTen(_)
PowerOfTen(k) == IF k = 0 THEN 1 ELSE 10 * PowerOfTen(k - 1)

\* parseFloat of the digits whole, a point and the digits fraction, under a
\* sign: the double nearest to the decimal
DecimalValue(neg, whole, fraction) ==
    IF whole = "" /\ fraction = "" THEN NaN
    ELSE FDivInt((IF neg THEN -1 ELSE 1) * DigitsValue(whole \o fraction, 0),
                 PowerOfTen(Len(fraction)))

\* parseFloat of the text after its sign
UnsignedFloat(neg, s) ==
    DecimalValue(neg, DigitsPrefix(s),
                 IF Len(s) > Len(DigitsPrefix(s))
                        /\ SubSeq(s, Len(DigitsPrefix(s)) + 1, Len(DigitsPrefix(s)) + 1) = "."
                 THEN DigitsPrefix(SubSeq(s, Len(DigitsPrefix(s)) + 2, Len(s)))
                 ELSE "")

\* parseFloat(s) for s of digits, points and minus signs
parseFloat(s) ==
    IF s # "" /\ Head(s) = "-" THEN UnsignedFloat(TRUE, Tail(s))
    ELSE UnsignedFloat(FALSE, s)

(***************************************************************************)
(* THE IMPORT NORMALIZER: parsePnlString, parseMt4Trades and                *)
(* parseMt5Trades of utils/importUtils.                                     *)
(***************************************************************************)
\* cleanStr once the accounting brackets are turned into a minus sign
WithoutBrackets(cleanStr) ==
    IF Len(cleanStr) > 0 /\ Head(cleanStr) = "("
           /\ SubSeq(cleanStr, Len(cleanStr), Len(cleanStr)) = ")"
    THEN "-" \o SubSeq(cleanStr, 2, Len(cleanStr) - 1)
    ELSE cleanStr

\* cleanStr with the later of its last comma and last point as decimal point
WithDecimalPoint(cleanStr) ==
    IF LastIndexIn(cleanStr, ",") > LastIndexIn(cleanStr, ".")
    THEN ReplaceFirst(ReplaceEach(cleanStr, {"."}, ""), ",", ".")
    ELSE ReplaceEach(cleanStr, {","}, "")

\* [0-9.,-]
PnlCharacters == CharsOf(Digits) \cup {".", ",", "-"}

NumberOrZero(pnl) == IF pnl.cls = "nan" THEN Zero ELSE pnl

parsePnlString(pnlStr) ==
    IF pnlStr = "" THEN Zero
    ELSE NumberOrZero(parseFloat(WithDecimalPoint(
             KeepOnly(WithoutBrackets(trim(pnlStr)), PnlCharacters))))

\* a cell of a table row: its element, its text content and its colSpan
Cell(tag, text, colSpan) == [tag |-> tag, text |-> text, colSpan |-> colSpan]
Td(text) == Cell("td", text, 1)

\* Array.prototype.findIndex on the texts of a row, counted from 1; 0 for -1
FindIndex(texts, wanted) ==
    IF \E i \in 1..Len(texts) : wanted[i]
    THEN CHOOSE i \in 1..Len(texts) : wanted[i] /\ \A j \in 1..(i - 1) : ~wanted[j]
    ELSE 0

\* rows[i].querySelectorAll('td, th') mapped to the trimmed lower-case texts
HeaderTexts(row) == [i \in 1..Len(row) |-> toLowerCase(trim(row[i].text))]

\* headers.findIndex(h => h.includes(keyword)) that takes the last column for
\* the profit when no header names it
KeywordIndex_profitByDefault(headers, keyword) ==
    IF \E i \in 1..Len(headers) : includes(headers[i], keyword)
    THEN CHOOSE i \in 1..Len(headers) :
             includes(headers[i], keyword) /\ \A j \in 1..(i - 1) : ~includes(headers[j], keyword)
    ELSE IF keyword = "profit" THEN Len(headers) ELSE 0

\* headers.findIndex(h => h.includes(keyword)), counted from 1; 0 for -1
RECURSIVE KeywordIndexFrom(_, _, _)
KeywordIndexFrom(headers, keyword, i) ==
    IF i > Len(headers) THEN 0
    ELSE IF includes(headers[i], keyword) THEN i
    ELSE KeywordIndexFrom(headers, keyword, i + 1)
KeywordIndex(headers, keyword) == KeywordIndexFrom(headers, keyword, 1)

\* openTimeIndex > -1 && typeIndex > -1 && symbolIndex > -1 && profitIndex > -1
IsHeaderRow(openTimeIndex, typeIndex, symbolIndex, profitIndex) ==
    openTimeIndex > 0 /\ typeIndex > 0 /\ symbolIndex > 0 /\ profitIndex > 0

\* columnIndexMap, from the texts of a row
Mt4ColumnIndexMap(headers) ==
    [openTime |-> KeywordIndex(headers, "open time"), type |-> KeywordIndex(headers, "type"),
     symbol |-> KeywordIndex(headers, "symbol"), profit |-> KeywordIndex(headers, "profit")]

Mt4HeaderMap(map) == IsHeaderRow(map.openTime, map.type, map.symbol, map.profit)
Mt4HeaderAt(rows, i) == Mt4HeaderMap(Mt4ColumnIndexMap(HeaderTexts(rows[i])))

\* the loop over rows that looks for the header, from row i on: the place of
\* the header row, 0 for -1
RECURSIVE Mt4HeaderRowFrom(_, _)
Mt4HeaderRowFrom(rows, i) ==
    IF i > Len(rows) THEN 0
    ELSE IF Mt4HeaderAt(rows, i) THEN i
    ELSE Mt4HeaderRowFrom(rows, i + 1)
Mt4HeaderRowIndex(rows) == Mt4HeaderRowFrom(rows, 1)

\* rows[i].querySelectorAll('td')
TdCells(row) == SelectSeq(row, LAMBDA c : c.tag = "td")

\* cells[index]?.textContent, '' standing for undefined too
TextAt(cells, index) == IF index \in 1..Len(cells) THEN cells[index].text ELSE ""

\* the trade with type always 'long'
TradeType_alwaysLong(type) == "long"

\* type === 'buy' ? 'long' : 'short'
TradeType(type) == IF type = "buy" THEN "long" ELSE "short"

\* the trade pushed for a row; the id ends in the place of the row, which
\* stands for the whole of it
ImportedTrade(i, date, time, pair, pnl, type) ==
    [id |-> i, date |-> date, time |-> time, pair |-> pair, pnl |-> pnl,
     type |-> TradeType(type), notes |-> "", photos |-> <<>>, tags |-> <<>>]

\* the part of the loop body from the split of the open time on
Mt4TradeOfParts(i, parts, pair, pnl, type) ==
    IF parts[1] = "" \/ Len(parts) < 2 \/ parts[2] = "" THEN <<>>
    ELSE IF IsZero(pnl) \/ pair = "" THEN <<>>
    ELSE <<ImportedTrade(i, ReplaceEach(parts[1], {".", "/"}, "-"), SubSeq(parts[2], 1, Min(5, Len(parts[2]))),
                         pair, pnl, type)>>

\* the loop body from the test of the type on
Mt4TradeOfType(i, cells, map, type) ==
    IF type \notin {"buy", "sell"} THEN <<>>
    ELSE Mt4TradeOfParts(i, split(trim(TextAt(cells, map.openTime)), " "),
                         toUpperCase(trim(TextAt(cells, map.symbol))),
                         parsePnlString(TextAt(cells, map.profit)), type)

\* the body of the loop over the rows after the header: the trades row i adds
Mt4TradesOfRow(i, cells, map) ==
    IF Len(cells) < 4 \/ (Len(cells) > 0 /\ cells[1].colSpan > 5) THEN <<>>
    ELSE Mt4TradeOfType(i, cells, map, toLowerCase(trim(TextAt(cells, map.type))))

RECURSIVE Mt4ImportedTrades(_, _, _)
Mt4ImportedTrades(rows, i, map) ==
    IF i > Len(rows) THEN <<>>
    ELSE Mt4TradesOfRow(i, TdCells(rows[i]), map) \o Mt4ImportedTrades(rows, i + 1, map)

\* the end of both parsers
ReturnImported(importedTrades, message) ==
    IF Len(importedTrades) = 0 THEN Thrown(message) ELSE Returned(importedTrades)

\* parseMt4Trades from the test of headerRowIndex on
Mt4FromHeader(rows, headerRowIndex) ==
    IF headerRowIndex = 0
    THEN Thrown("Could not find the header row in the trades table. Required columns: Open Time, Type, Symbol, Profit.")
    ELSE ReturnImported(
             Mt4ImportedTrades(rows, headerRowIndex + 1,
                               Mt4ColumnIndexMap(HeaderTexts(rows[headerRowIndex]))),
             "No valid 'buy' or 'sell' trades were found in the report.")

\* parseMt4Trades from the table it has located, Null when it has found none
parseMt4Trades(table) ==
    IF table = Null
    THEN Thrown("Could not find a valid trades table. The report format may be unsupported.")
    ELSE Mt4FromHeader(table[1], Mt4HeaderRowIndex(table[1]))


\* (r[0] || '').toString().trim().toLowerCase() of a sheet row
FirstCell(row) == IF Len(row) > 0 THEN toLowerCase(trim(row[1])) ELSE ""

\* rows.findIndex(r => first cell includes 'positions'), counted from 1
PositionsStartIndex(rows) ==
    FindIndex(rows, [i \in 1..Len(rows) |-> includes(FirstCell(rows[i]), "positions")])

\* the row that ends the section: the first after its start whose first cell
\* includes 'orders', 'deals' or 'summary', or the place after the last row
EndOrLength(rows, positionsEndIndex) ==
    IF positionsEndIndex = 0 THEN Len(rows) + 1 ELSE positionsEndIndex
PositionsEndIndex(rows, start) ==
    EndOrLength(rows,
        FindIndex(rows, [i \in 1..Len(rows) |->
                            i > start /\ \E h \in {"orders", "deals", "summary"} :
                                             includes(FirstCell(rows[i]), h)]))

\* rows[i].map(cell => String(cell || '').trim().toLowerCase())
PotentialHeader(row) == [i \in 1..Len(row) |-> toLowerCase(trim(row[i]))]

requiredKeywords ==
    <<{"time", "open time"}, {"symbol", "item"}, {"type"}, {"profit", "p/l", "p&l"}>>

\* requiredKeywords.every(aliases => aliases.some(alias => header.includes(alias)))
IsMt5Header(potentialHeader) ==
    \A k \in 1..Len(requiredKeywords) :
        \E c \in 1..Len(potentialHeader) : potentialHeader[c] \in requiredKeywords[k]
Mt5HeaderAt(rows, i) == IsMt5Header(PotentialHeader(rows[i]))

Mt5HeaderRowIndex(rows, start, end) ==
    FindIndex(rows, [i \in 1..Len(rows) |-> i >= start /\ i < end /\ Mt5HeaderAt(rows, i)])

\* findIndex(aliases) on the header
AliasIndex(header, aliases) ==
    FindIndex(header, [i \in 1..Len(header) |-> header[i] \in aliases])

Mt5Columns(header) ==
    [time |-> AliasIndex(header, {"time", "open time"}),
     symbol |-> AliasIndex(header, {"symbol", "item"}),
     type |-> AliasIndex(header, {"type"}),
     profit |-> AliasIndex(header, {"profit", "p/l", "p&l"}),
     comment |-> AliasIndex(header, {"comment"}),
     width |-> Len(header)]

\* String(row[index] || '')
ValueAt(row, index) == IF index \in 1..Len(row) THEN row[index] ELSE ""

IsDigits(s) == s # "" /\ DigitsPrefix(s) = s
Between(s, low, high) ==
    IsDigits(s) /\ DigitsValue(s, 0) >= low /\ DigitsValue(s, 0) <= high

\* new Date(text) for a text "yyyy/MM/dd HH:mm" or "yyyy/MM/dd HH:mm:ss" of a
\* day of the calendar, and for a text that is no date and has no digit:
\* the parts of the date, or Null for an Invalid Date
NewDate(text) ==
    IF /\ Len(text) \in {16, 19}
       /\ IsDigits(SubSeq(text, 1, 4))
       /\ SubSeq(text, 5, 5) = "/" /\ Between(SubSeq(text, 6, 7), 1, 12)
       /\ SubSeq(text, 8, 8) = "/" /\ Between(SubSeq(text, 9, 10), 1, 31)
       /\ SubSeq(text, 11, 11) = " " /\ Between(SubSeq(text, 12, 13), 0, 23)
       /\ SubSeq(text, 14, 14) = ":" /\ Between(SubSeq(text, 15, 16), 0, 59)
       /\ Len(text) = 19 => SubSeq(text, 17, 17) = ":" /\ Between(SubSeq(text, 18, 19), 0, 59)
    THEN Some([year |-> SubSeq(text, 1, 4), month |-> SubSeq(text, 6, 7),
               day |-> SubSeq(text, 9, 10), hours |-> SubSeq(text, 12, 13),
               minutes |-> SubSeq(text, 15, 16)])
    ELSE Null

\* the part of the callback from the date on: format(d, 'yyyy-MM-dd') and
\* format(d, 'HH:mm')
Mt5TradeOfDate(index, d, pair, pnl, type) ==
    IF d = Null THEN <<>>
    ELSE IF IsZero(pnl) \/ pair = "" THEN <<>>
    ELSE <<ImportedTrade(index, d[1].year \o "-" \o d[1].month \o "-" \o d[1].day,
                         d[1].hours \o ":" \o d[1].minutes, pair, pnl, type)>>

\* ['balance', 'deposit', 'withdrawal'].some(word => text.includes(word))
NamesLedgerEntry(text) ==
    \E word \in {"balance", "deposit", "withdrawal"} : includes(text, word)

\* the callback from the test of type and comment on
Mt5TradeOfType(index, row, columns, type, comment) ==
    IF NamesLedgerEntry(type) \/ NamesLedgerEntry(comment) \/ type \notin {"buy", "sell"}
    THEN <<>>
    ELSE Mt5TradeOfDate(index, NewDate(ReplaceEach(ValueAt(row, columns.time), {"."}, "/")),
                        toUpperCase(trim(ValueAt(row, columns.symbol))),
                        parsePnlString(IF ValueAt(row, columns.profit) = "" THEN "0"
                                       ELSE ValueAt(row, columns.profit)),
                        type)

\* the callback of dataRows.forEach: the trades a row adds
Mt5TradesOfRow(index, row, columns) ==
    IF 2 * Len(row) < columns.width \/ \A c \in 1..Len(row) : row[c] = "" THEN <<>>
    ELSE Mt5TradeOfType(index, row, columns, toLowerCase(trim(ValueAt(row, columns.type))),
                        IF columns.comment # 0
                        THEN toLowerCase(trim(ValueAt(row, columns.comment))) ELSE "")

\* the trades of the rows from place i up to the end of the section, index
\* being the place among dataRows
RECURSIVE Mt5ImportedTrades(_, _, _, _, _)
Mt5ImportedTrades(rows, i, end, index, columns) ==
    IF i >= end THEN <<>>
    ELSE Mt5TradesOfRow(index, rows[i], columns)
         \o Mt5ImportedTrades(rows, i + 1, end, index + 1, columns)

Mt5FromHeader(rows, end, headerRowIndex) ==
    IF headerRowIndex = 0
    THEN Thrown("Could not locate the header row within the 'Positions' section. Please ensure it contains Time, Symbol, Type, and Profit columns.")
    ELSE ReturnImported(
             Mt5ImportedTrades(rows, headerRowIndex + 1, end, 0,
                               Mt5Columns(PotentialHeader(rows[headerRowIndex]))),
             "No valid 'buy' or 'sell' trades were found in the 'Positions' section.")

Mt5FromSection(rows, start, end) ==
    Mt5FromHeader(rows, end, Mt5HeaderRowIndex(rows, start, end))

\* parseMt5Trades from the rows of the first sheet, Null when the workbook
\* has no sheet
parseMt5Trades(sheet) ==
    IF sheet = Null THEN Thrown("No sheets found in the XLSX file.")
    ELSE IF PositionsStartIndex(sheet[1]) = 0
    THEN Thrown("Could not find the 'Positions' section in the report.")
    ELSE Mt5FromSection(sheet[1], PositionsStartIndex(sheet[1]),
                        PositionsEndIndex(sheet[1], PositionsStartIndex(sheet[1])))


\* the reports of the model.  A table has a title row, a header row and data
\* rows of the columns ticket, open time, type, symbol and profit.
MaxReportRows == 2

Mt4Row(ticket, openTime, type, symbol, profit) ==
    <<Td(ticket), Td(openTime), Td(type), Td(symbol), Td(profit)>>
Mt4TitleRow == <<Cell("td", "Closed Transactions:", 10)>>
Mt4Headers ==
    {Mt4Row("Ticket", "Open Time", "Type", "Symbol", "Profit"),
     <<Cell("th", " TICKET ", 1), Cell("th", "OPEN TIME", 1), Cell("th", "TYPE", 1),
       Cell("th", " SYMBOL", 1), Cell("th", "PROFIT ", 1)>>,
     Mt4Row("Ticket", "Open Time", "Type", "Symbol", "Swap")}
Mt4DataRows ==
    {Mt4Row("1", "2024.01.15 10:30:00", "buy", "eurusd", "12.50"),
     Mt4Row("2", "2024/01/16 09:05", " Sell ", "GBPUSD", "(1,234.56)"),
     Mt4Row("3", "2024.01.17 00:00", "balance", "", "500.00"),
     Mt4Row("4", "2024.01.18 11:00", "buy", "EURUSD", "0.00"),
     Mt4Row("5", "2024.01.18 11:00", "sell", " ", "-3,5"),
     Mt4Row("6", "2024.01.19", "buy", "EURUSD", "7"),
     Mt4Row("7", "2024.01.19  12:00", "buy", "EURUSD", "7"),
     Mt4Row("8", "2024.01.19 12:00", "buy", "EURUSD", "n/a"),
     <<Cell("td", "9", 6), Td("2024.01.20 10:00"), Td("buy"), Td("EURUSD"), Td("9")>>,
     <<Td("10"), Td("2024.01.20 10:00"), Td("buy")>>}
Mt4Tables ==
    {Null, Some(<<Mt4TitleRow>>)}
    \cup {Some(<<Mt4TitleRow, header>> \o rows) :
             header \in Mt4Headers,
             rows \in UNION {[1..n -> Mt4DataRows] : n \in 0..MaxReportRows}}

\* a sheet has the row of the Positions title, a header row, data rows of the
\* columns time, position, symbol, type, volume, profit and comment, and
\* then the Orders section
Mt5Header == <<"Time", "Position", "Symbol", "Type", "Volume", "Profit", "Comment">>
Mt5DataRows ==
    {<<"2024.01.15 10:30:00", "1", "eurusd", "buy", "0.1", "12.50", "">>,
     <<"2024.01.16 09:05:00", "2", "GBPUSD", " Sell ", "0.2", "-1 234.56", "tp">>,
     <<"2024.01.14 00:00:00", "3", "", "balance", "", "500.00", "">>,
     <<"2024.01.17 10:00:00", "4", "EURUSD", "buy", "0.1", "5.00", "Deposit bonus">>,
     <<"2024.01.18 11:00:00", "5", "EURUSD", "buy", "0.1", "0.00", "">>,
     <<"2024.01.18 11:00:00", "6", "", "sell", "0.1", "3.10", "">>,
     <<"n/a", "7", "EURUSD", "sell", "0.1", "3.10", "">>,
     <<"", "", "", "", "", "", "">>,
     <<"2024.01.19 10:00:00", "8", "EURUSD">>}
Mt5Orders == <<<<"Orders">>, <<"2024.01.15 10:30:00", "1", "usdjpy", "buy", "0.1", "99", "">>>>
Mt5Sheets ==
    {Null, Some(<<<<"Trade History Report">>>> \o Mt5Orders)}
    \cup {Some(<<<<"Positions">>, header>> \o rows \o Mt5Orders) :
             header \in {Mt5Header, SubSeq(Mt5Header, 1, 5)},
             rows \in UNION {[1..n -> Mt5DataRows] : n \in 0..MaxReportRows}}
    \cup {Some(<<<<" POSITIONS ">>, <<"Open Time", "Item", "Type", "P/L">>>> \o rows) :
             rows \in UNION {[1..n -> {<<"2024.01.15 10:30", "eurusd", "buy", "1.5">>,
                                        <<"2024.01.16 10:30", "gbpusd", "sell", "-2,5">>,
                                        <<"2024.01.16 10:30", "gbpusd", "credit", "10">>}] :
                                n \in 0..MaxReportRows}}

ReportFile(format, content) == [format |-> format, content |-> content]
ReportFiles ==
    {ReportFile("html", table) : table \in Mt4Tables}
    \cup {ReportFile("xlsx", sheet) : sheet \in Mt5Sheets}

InitImport ==
    /\ file \in {Some(f) : f \in ReportFiles}
    /\ imported = Null
    /\ trades = <<>>
    /\ pc = "ready"
    /\ streak = Null /\ report = Null /\ gradedMetrics = Null /\ grade = Null
    /\ isLoading = FALSE /\ analysisResult = Null /\ error = Null /\ call = Null
    /\ circadian = Null
    /\ IdleJournal /\ IdleSummary

\* reader.onload of an .html report: parseMt4Trades runs on it
ParseHtmlReport ==
    /\ pc = "ready" /\ file[1].format = "html"
    /\ imported' = Some(parseMt4Trades(file[1].content))
    /\ pc' = "done"
    /\ UNCHANGED <<file, trades, streak, report, gradedMetrics, grade, circadian,
                   isLoading, analysisResult, error, call,
                   store, ops, calls, generated, rethrown, isLoaded, tagSummary>>

\* reader.onload of an .xlsx report: parseMt5Trades runs on it
ParseXlsxReport ==
    /\ pc = "ready" /\ file[1].format = "xlsx"
    /\ imported' = Some(parseMt5Trades(file[1].content))
    /\ pc' = "done"
    /\ UNCHANGED <<file, trades, streak, report, gradedMetrics, grade, circadian,
                   isLoading, analysisResult, error, call,
                   store, ops, calls, generated, rethrown, isLoaded, tagSummary>>

NextImport == ParseHtmlReport \/ ParseXlsxReport

SpecImport == InitImport /\ [][NextImport]_vars

\* a row has a cell for the header column named keyword
HasColumn(row, keyword) ==
    \E c \in 1..Len(row) : includes(toLowerCase(trim(row[c].text)), keyword)
HasAllColumns(row) ==
    \A keyword \in {"open time", "type", "symbol", "profit"} : HasColumn(row, keyword)

\* the parser has run on a table that it located
ParsedTable == imported # Null /\ file[1].format = "html" /\ file[1].content # Null

\* C21: parseMt4Trades throws, and returns no trades, whenever no row of the
\* located table has all four header columns open time, type, symbol and
\* profit, however many buy and sell rows the table holds.
C21_NoHeaderRowThrows ==
    (ParsedTable /\ \A i \in 1..Len(file[1].content[1]) :
                        ~HasAllColumns(file[1].content[1][i]))
        => ~imported[1].ok /\ imported[1].value = <<>>

\* the parser threw on a table whose header lacks the profit column and that
\* holds two rows which are trades under a full header
C21_Witness ==
    /\ ParsedTable /\ ~imported[1].ok
    /\ \E i \in 1..Len(file[1].content[1]) :
           /\ HasColumn(file[1].content[1][i], "symbol")
           /\ ~HasColumn(file[1].content[1][i], "profit")
    /\ Cardinality({i \in 1..Len(file[1].content[1]) :
           Len(file[1].content[1][i]) = 5 /\ file[1].content[1][i][3].text = "buy"
               /\ file[1].content[1][i][5].text = "12.50"}) = 2


\* what a data row holds under the columns of the header: its type, symbol
\* and P&L, whether its date and time can be read, whether it names a ledger
\* entry and whether it is too short, blank or a spanning row
RowFacts(type, symbol, pnl, dated, ledger, blank) ==
    [type |-> type, symbol |-> symbol, pnl |-> pnl, dated |-> dated,
     ledger |-> ledger, blank |-> blank]

HasDateAndTime(parts) == Len(parts) >= 2 /\ parts[1] # "" /\ parts[2] # ""

Mt4Facts(cells, map) ==
    RowFacts(toLowerCase(trim(TextAt(cells, map.type))),
             trim(TextAt(cells, map.symbol)),
             parsePnlString(TextAt(cells, map.profit)),
             HasDateAndTime(split(trim(TextAt(cells, map.openTime)), " ")),
             FALSE,
             Len(cells) < 4 \/ (Len(cells) > 0 /\ cells[1].colSpan > 5))

Mt5Facts(row, columns) ==
    RowFacts(toLowerCase(trim(ValueAt(row, columns.type))),
             trim(ValueAt(row, columns.symbol)),
             parsePnlString(ValueAt(row, columns.profit)),
             NewDate(ReplaceEach(ValueAt(row, columns.time), {"."}, "/")) # Null,
             \E word \in {"balance", "deposit", "withdrawal"} :
                 \/ includes(toLowerCase(ValueAt(row, columns.type)), word)
                 \/ includes(toLowerCase(ValueAt(row, columns.comment)), word),
             2 * Len(row) < columns.width \/ \A c \in 1..Len(row) : row[c] = "")

Mt4FactsAfter(rows, headerRowIndex) ==
    [k \in 1..(Len(rows) - headerRowIndex) |->
        Mt4Facts(TdCells(rows[headerRowIndex + k]),
                 Mt4ColumnIndexMap(HeaderTexts(rows[headerRowIndex])))]

Mt5FactsBetween(rows, headerRowIndex, end) ==
    [k \in 1..(end - headerRowIndex - 1) |->
        Mt5Facts(rows[headerRowIndex + k],
                 Mt5Columns(PotentialHeader(rows[headerRowIndex])))]

Mt5SectionEnd(rows) == PositionsEndIndex(rows, PositionsStartIndex(rows))
Mt5Header_of(rows) ==
    Mt5HeaderRowIndex(rows, PositionsStartIndex(rows), Mt5SectionEnd(rows))

\* a parser has run on a report in which it found its header row
ParsedWithHeader ==
    /\ imported # Null /\ file[1].content # Null
    /\ IF file[1].format = "html" THEN Mt4HeaderRowIndex(file[1].content[1]) > 0
       ELSE PositionsStartIndex(file[1].content[1]) > 0
                /\ Mt5Header_of(file[1].content[1]) > 0

\* the facts of the rows after the header of the report
DataFacts ==
    IF file[1].format = "html"
    THEN Mt4FactsAfter(file[1].content[1], Mt4HeaderRowIndex(file[1].content[1]))
    ELSE Mt5FactsBetween(file[1].content[1], Mt5Header_of(file[1].content[1]),
                         Mt5SectionEnd(file[1].content[1]))

IsTradeRow(f) ==
    f.type \in {"buy", "sell"} /\ ~IsZero(f.pnl) /\ f.symbol # "" /\ f.dated

\* the outcome is that of the rows survivors: an error when there is none,
\* and else one trade for each, in their order
OutcomeOf(survivors) ==
    IF survivors = <<>> THEN ~imported[1].ok
    ELSE /\ imported[1].ok
         /\ Len(imported[1].value) = Len(survivors)
         /\ \A k \in 1..Len(survivors) :
                /\ imported[1].value[k].pair = toUpperCase(survivors[k].symbol)
                /\ ~IsZero(imported[1].value[k].pnl)
                /\ imported[1].value[k].pnl = survivors[k].pnl
                /\ imported[1].value[k].type
                       = (IF survivors[k].type = "buy" THEN "long" ELSE "short")

\* C22 as stated: in both parsers a row after the header that is no buy or
\* sell, has zero P&L, an empty symbol or a date and time that cannot be read
\* is skipped, every other row yields exactly one trade (upper-case pair,
\* non-zero pnl, long for buy and short for sell), and the parser throws
\* exactly when no row survives.
C22_EveryTradeRowImported ==
    ParsedWithHeader => OutcomeOf(SelectSeq(DataFacts, IsTradeRow))

\* C22, amended: the rows skipped are also those that are too short, blank
\* or spanning (parseMt4Trades: fewer than 4 cells, or a first cell with
\* colSpan over 5; parseMt5Trades: fewer cells than half the header, or all
\* cells empty) and, in parseMt5Trades, those whose type or comment names a
\* balance, deposit or withdrawal; every other buy or sell row with a symbol,
\* a non-zero P&L and a readable date and time yields exactly one trade, and
\* the parser throws exactly when no row survives.
C22_RowsSkippedOrImported ==
    ParsedWithHeader =>
        OutcomeOf(SelectSeq(DataFacts, LAMBDA f : IsTradeRow(f) /\ ~f.blank /\ ~f.ledger))

\* a sell row was imported from a report in which a buy row was skipped for
\* its comment or for its spanning first cell
C22_Witness ==
    /\ ParsedWithHeader /\ imported[1].ok
    /\ \E k \in 1..Len(imported[1].value) : imported[1].value[k].type = "short"
    /\ \E k \in 1..Len(DataFacts) :
           IsTradeRow(DataFacts[k]) /\ (DataFacts[k].blank \/ DataFacts[k].ledger)

(***************************************************************************)
(* THE JOURNAL: hooks/useTrades over the IndexedDB store of utils/db.       *)
(***************************************************************************)
\* a trade of the journal.  tags is either the legacy array of strings or the
\* object of categories, the latter as its entries in insertion order
JournalTrade(id, date, time, pnl, notes, tags) ==
    [id |-> id, date |-> date, time |-> time, pnl |-> pnl, notes |-> notes, tags |-> tags]

ArrayTags(strings) == [array |-> TRUE, items |-> strings]
ObjectTags(entries) == [array |-> FALSE, items |-> entries]

\* const generateId = () => `trade_${...}`: the n-th id it makes
generateId(n) == "trade_" \o SubSeq(Digits, n + 1, n + 1)

\* tradeList.sort((a, b) => dateTimeB.localeCompare(dateTimeA))
sortTrades(tradeList) ==
    ArraySort(tradeList,
              [i \in 1..Len(tradeList), j \in 1..Len(tradeList) |->
                  LocaleCompare(DateTimeKey(tradeList[j]), DateTimeKey(tradeList[i]))])

knownCategories == <<"strategy", "trigger", "session", "mistakes", "confidence", "emotions">>

\* newTags[category], or [] when the key is not set
CategoryValues(newTags, category) ==
    IF \E i \in 1..Len(newTags) : newTags[i].category = category
    THEN newTags[CHOOSE i \in 1..Len(newTags) : newTags[i].category = category].values
    ELSE <<>>

\* newTags[category] = values: a new key goes last, a set key keeps its place
SetCategory(newTags, category, values) ==
    IF \E i \in 1..Len(newTags) : newTags[i].category = category
    THEN [i \in 1..Len(newTags) |->
             IF newTags[i].category = category THEN TagEntry(category, values)
             ELSE newTags[i]]
    ELSE Append(newTags, TagEntry(category, values))

\* the body of the forEach with every known category an array
MigrateTag_confidenceKept(newTags, tag, parts) ==
    IF Len(parts) > 1 /\ join(Tail(parts), ":") # ""
       /\ \E k \in 1..Len(knownCategories) : knownCategories[k] = parts[1]
    THEN SetCategory(newTags, parts[1],
                     Append(CategoryValues(newTags, parts[1]), join(Tail(parts), ":")))
    ELSE SetCategory(newTags, "custom", Append(CategoryValues(newTags, "custom"), tag))

\* the body of the forEach over the legacy tags, parts being tag.split(':')
MigrateTag(newTags, tag, parts) ==
    IF Len(parts) > 1 /\ join(Tail(parts), ":") # ""
       /\ \E k \in 1..Len(knownCategories) : knownCategories[k] = parts[1]
    THEN IF parts[1] = "confidence"
         THEN SetCategory(newTags, "confidence", <<join(Tail(parts), ":")>>)
         ELSE SetCategory(newTags, parts[1],
                          Append(CategoryValues(newTags, parts[1]), join(Tail(parts), ":")))
    ELSE SetCategory(newTags, "custom", Append(CategoryValues(newTags, "custom"), tag))

RECURSIVE MigratedTags(_, _)
MigratedTags(tags, newTags) ==
    IF tags = <<>> THEN newTags
    ELSE MigratedTags(Tail(tags), MigrateTag(newTags, Head(tags), split(Head(tags), ":")))

\* the callback of dbTrades.map
MigratedTrade(trade) ==
    IF trade.tags.array
    THEN [trade EXCEPT !.tags = ObjectTags(MigratedTags(trade.tags.items, <<>>))]
    ELSE trade

migratedTrades(dbTrades) == [i \in 1..Len(dbTrades) |-> MigratedTrade(dbTrades[i])]

hasMigrationChanges(dbTrades) == \E i \in 1..Len(dbTrades) : dbTrades[i].tags.array

\* ------------------------------ utils/db --------------------------------
\* the order of two keys of the store: character by character
KeyAlphabet == "0123456789_abcdefghijklmnopqrstuvwxyz"

RECURSIVE KeyBefore(_, _)
KeyBefore(a, b) ==
    IF b = "" THEN FALSE
    ELSE IF a = "" THEN TRUE
    ELSE IF Head(a) # Head(b) THEN IndexIn(KeyAlphabet, Head(a)) < IndexIn(KeyAlphabet, Head(b))
    ELSE KeyBefore(Tail(a), Tail(b))

\* store.getAll(): the records in key order
getAllTrades(records) ==
    LET n == Cardinality(records)
    IN  [k \in 1..n |->
            CHOOSE t \in records :
                Cardinality({u \in records : KeyBefore(u.id, t.id)}) = k - 1]

\* store.put(trade): the record under the trade's key is replaced
Put(records, trade) == {t \in records : t.id # trade.id} \cup {trade}

\* store.put of every trade in one transaction, in order
RECURSIVE PutAll(_, _)
PutAll(records, tradeList) ==
    IF tradeList = <<>> THEN records
    ELSE PutAll(Put(records, Head(tradeList)), Tail(tradeList))

\* store.delete(id)
Delete(records, id) == {t \in records : t.id # id}

\* an operation on the store and the promise that waits for it: the state of
\* the promise is pending, ok or failed
StoreOp(kind, arg) == [kind |-> kind, status |-> "pending", arg |-> arg]

\* store.add(trade) cannot succeed when the key is taken
CanSucceed(records, op) ==
    op.kind = "add" => \A t \in records : t.id # op.arg.id

\* what the store holds once the transaction is over: nothing changes when
\* its request failed, and of the deletes of deleteMultipleTrades, each in a
\* transaction of its own, those outside failed are done
StoreAfter(records, op, failed) ==
    IF op.kind = "deleteMultiple"
    THEN {t \in records : t.id \notin (Elements(op.arg) \ failed)}
    ELSE IF failed # {} THEN records
    ELSE CASE op.kind = "getAll" -> records
           [] op.kind = "migrate" -> PutAll(records, op.arg)
           [] op.kind = "add" -> records \cup {op.arg}
           [] op.kind = "delete" -> Delete(records, op.arg)
           [] op.kind = "update" -> Put(records, op.arg.trade)
           [] op.kind = "clear" -> {}
           [] op.kind = "bulkAdd" -> PutAll(records, op.arg)

\* the requests of an operation, any of which may fail
Requests(op) == IF op.kind = "deleteMultiple" THEN Elements(op.arg) ELSE {"request"}
\* ----------------------------- hooks/useTrades --------------------------
\* updates.date || updates.time
DateOrTimeGiven(updates) ==
    \/ "date" \in DOMAIN updates
    \/ "time" \in DOMAIN updates /\ updates.time # <<>>

\* updateTrade's setTrades callback
AfterUpdate(prevTrades, arg) ==
    IF DateOrTimeGiven(arg.updates)
    THEN sortTrades([i \in 1..Len(prevTrades) |->
                        IF prevTrades[i].id = arg.trade.id THEN arg.trade ELSE prevTrades[i]])
    ELSE [i \in 1..Len(prevTrades) |->
             IF prevTrades[i].id = arg.trade.id THEN arg.trade ELSE prevTrades[i]]

\* prevTrades.filter(trade => !ids.has(trade.id))
RECURSIVE WithoutIds(_, _)
WithoutIds(prevTrades, ids) ==
    IF prevTrades = <<>> THEN <<>>
    ELSE IF Head(prevTrades).id \in ids THEN WithoutIds(Tail(prevTrades), ids)
    ELSE <<Head(prevTrades)>> \o WithoutIds(Tail(prevTrades), ids)

\* newTrades.map(t => ({...t, id: t.id || generateId()})), n ids made before
RECURSIVE tradesWithIds(_, _)
tradesWithIds(newTrades, n) ==
    IF newTrades = <<>> THEN <<>>
    ELSE IF Head(newTrades).id = ""
    THEN <<[Head(newTrades) EXCEPT !.id = generateId(n)]>> \o tradesWithIds(Tail(newTrades), n + 1)
    ELSE <<Head(newTrades)>> \o tradesWithIds(Tail(newTrades), n)

RECURSIVE EmptyIds(_)
EmptyIds(newTrades) ==
    IF newTrades = <<>> THEN 0
    ELSE (IF Head(newTrades).id = "" THEN 1 ELSE 0) + EmptyIds(Tail(newTrades))

\* the list a then-callback hands to setTrades, the lists of the failure
\* paths included: those leave the list as it is
MemoryAfter_whateverTheRequest(op, prevTrades, dbTrades) ==
    CASE op.kind = "getAll" ->
            IF hasMigrationChanges(dbTrades) THEN prevTrades
            ELSE sortTrades(migratedTrades(dbTrades))
      [] op.kind = "migrate" -> sortTrades(op.arg)
      [] op.kind = "add" -> sortTrades(<<op.arg>> \o prevTrades)
      [] op.kind = "delete" -> WithoutIds(prevTrades, {op.arg})
      [] op.kind = "deleteMultiple" -> WithoutIds(prevTrades, Elements(op.arg))
      [] op.kind = "update" -> AfterUpdate(prevTrades, op.arg)
      [] op.kind = "clear" -> prevTrades
      [] op.kind = "bulkAdd" -> sortTrades(op.arg)

\* the list once the promise of op has run its then or its catch
MemoryAfter(op, prevTrades, dbTrades) ==
    IF op.status = "failed" THEN prevTrades
    ELSE CASE op.kind = "getAll" ->
                 IF hasMigrationChanges(dbTrades) THEN prevTrades
                 ELSE sortTrades(migratedTrades(dbTrades))
           [] op.kind = "migrate" -> sortTrades(op.arg)
           [] op.kind = "add" -> sortTrades(<<op.arg>> \o prevTrades)
           [] op.kind = "delete" -> WithoutIds(prevTrades, {op.arg})
           [] op.kind = "deleteMultiple" -> WithoutIds(prevTrades, Elements(op.arg))
           [] op.kind = "update" -> AfterUpdate(prevTrades, op.arg)
           [] op.kind = "clear" -> prevTrades
           [] op.kind = "bulkAdd" -> sortTrades(op.arg)

\* the store operation the then-callback of op starts, if any
FollowUp(op, dbTrades, n) ==
    IF op.status = "failed" THEN <<>>
    ELSE IF op.kind = "getAll" /\ hasMigrationChanges(dbTrades)
    THEN <<StoreOp("migrate", migratedTrades(dbTrades))>>
    ELSE IF op.kind = "clear" THEN <<StoreOp("bulkAdd", tradesWithIds(op.arg, n))>>
    ELSE <<>>

\* loadTrades reaches its finally block
LoadEnds(op, dbTrades) ==
    \/ op.kind = "migrate"
    \/ op.kind = "getAll" /\ (op.status = "failed" \/ ~hasMigrationChanges(dbTrades))

OutsideJournal ==
    <<pc, streak, report, gradedMetrics, grade, circadian,
      isLoading, analysisResult, error, call, file, imported, tagSummary>>

\* the request of the oldest operation succeeds or fails
StoreSettles ==
    /\ ops # <<>> /\ Head(ops).status = "pending"
    /\ \E failed \in SUBSET Requests(Head(ops)) :
          /\ failed = {} => CanSucceed(store, Head(ops))
          /\ store' = StoreAfter(store, Head(ops), failed)
          /\ ops' = [ops EXCEPT ![1].status = IF failed = {} THEN "ok" ELSE "failed"]
    /\ UNCHANGED <<trades, calls, generated, rethrown, isLoaded, OutsideJournal>>

\* the then or the catch of the settled promise runs
PromiseContinues ==
    /\ ops # <<>> /\ Head(ops).status # "pending"
    /\ trades' = MemoryAfter(Head(ops), trades, getAllTrades(store))
    /\ ops' = Tail(ops) \o FollowUp(Head(ops), getAllTrades(store), generated)
    /\ generated' = IF Head(ops).kind = "clear" /\ Head(ops).status = "ok"
                    THEN generated + EmptyIds(Head(ops).arg) ELSE generated
    /\ rethrown' = IF Head(ops).kind = "update" /\ Head(ops).status = "failed"
                   THEN rethrown \cup {Head(ops).arg.trade.id} ELSE rethrown
    /\ isLoaded' = (isLoaded \/ LoadEnds(Head(ops), getAllTrades(store)))
    /\ UNCHANGED <<store, calls, OutsideJournal>>

MaxCalls == 2

CanCall == isLoaded /\ Len(calls) < MaxCalls

\* the trades the add modal saves
NewTrades ==
    {[date |-> 3, time |-> <<10, 0>>, pnl |-> 5, notes |-> "", tags |-> ObjectTags(<<>>)],
     [date |-> 1, time |-> <<>>, pnl |-> -5, notes |-> "", tags |-> ObjectTags(<<>>)]}

AddTrade ==
    /\ CanCall
    /\ \E trade \in NewTrades :
          /\ ops' = Append(ops, StoreOp("add", Spread(trade, [id |-> generateId(generated)])))
          /\ calls' = Append(calls, [name |-> "addTrade", trade |-> trade])
    /\ generated' = generated + 1
    /\ UNCHANGED <<trades, store, rethrown, isLoaded, OutsideJournal>>

DeleteTrade ==
    /\ CanCall
    /\ \E i \in 1..Len(trades) :
          /\ ops' = Append(ops, StoreOp("delete", trades[i].id))
          /\ calls' = Append(calls, [name |-> "deleteTrade", tradeId |-> trades[i].id])
    /\ UNCHANGED <<trades, store, generated, rethrown, isLoaded, OutsideJournal>>

DeleteMultipleTrades ==
    /\ CanCall
    /\ \E i \in 1..Len(trades) : \E j \in (i + 1)..Len(trades) :
          /\ trades[i].id # trades[j].id
          /\ ops' = Append(ops, StoreOp("deleteMultiple", <<trades[i].id, trades[j].id>>))
          /\ calls' = Append(calls, [name |-> "deleteMultipleTrades",
                                     tradeIds |-> <<trades[i].id, trades[j].id>>])
    /\ UNCHANGED <<trades, store, generated, rethrown, isLoaded, OutsideJournal>>

\* the changed fields the edit modal saves
Updates ==
    {[notes |-> "edited"], [pnl |-> 7], [time |-> <<>>], [date |-> 1]}

\* trades.find(t => t.id === tradeId), or nothing
Find(tradeList, tradeId) ==
    IF \E i \in 1..Len(tradeList) : tradeList[i].id = tradeId
    THEN Some(tradeList[CHOOSE i \in 1..Len(tradeList) :
                            /\ tradeList[i].id = tradeId
                            /\ \A j \in 1..(i - 1) : tradeList[j].id # tradeId])
    ELSE Null

\* updateTrade up to its await: nothing is started for an id that is not found
UpdateStarted(originalTrade, updates) ==
    IF originalTrade = Null THEN <<>>
    ELSE <<StoreOp("update", [trade |-> Spread(originalTrade[1], updates),
                              updates |-> updates])>>

UpdateTrade ==
    /\ CanCall
    /\ \E tradeId \in {trades[i].id : i \in 1..Len(trades)} \cup {"gone"} :
       \E updates \in Updates :
          /\ ops' = ops \o UpdateStarted(Find(trades, tradeId), updates)
          /\ calls' = Append(calls, [name |-> "updateTrade", tradeId |-> tradeId,
                                     updates |-> updates,
                                     originalTrade |-> Find(trades, tradeId)])
    /\ UNCHANGED <<trades, store, generated, rethrown, isLoaded, OutsideJournal>>

\* the trades of the stores and of the backups
TradeA == JournalTrade("a", 2, <<9, 30>>, 10, "", ObjectTags(<<TagEntry("strategy", <<"Breakout">>)>>))
TradeB == JournalTrade("b", 2, <<8, 0>>, -4, "", ObjectTags(<<>>))
TradeC == JournalTrade("c", 3, <<9, 0>>, 6, "", ObjectTags(<<>>))
LegacyA == [TradeA EXCEPT !.tags = ArrayTags(<<"strategy:Breakout">>)]

\* backups isValidTradeData accepts: two trades, oldest first; two trades
\* under one id; a trade with the empty id; no trade
ImportLists ==
    {<<TradeB, TradeC>>,
     <<TradeC, [TradeB EXCEPT !.id = "c"]>>,
     <<[TradeC EXCEPT !.id = ""]>>,
     <<>>}

ImportTrades ==
    /\ CanCall
    /\ \E newTrades \in ImportLists :
          /\ ops' = Append(ops, StoreOp("clear", newTrades))
          /\ calls' = Append(calls, [name |-> "importTrades", newTrades |-> newTrades])
    /\ UNCHANGED <<trades, store, generated, rethrown, isLoaded, OutsideJournal>>

JournalStores == {{}, {TradeA, TradeB}, {LegacyA, TradeB}}

\* the hook is mounted: useEffect has called loadTrades, getAllTrades is under way
Mounted(records) ==
    /\ trades = <<>> /\ pc = "idle" /\ streak = Null /\ report = Null
    /\ gradedMetrics = Null /\ grade = Null /\ circadian = Null
    /\ isLoading = FALSE /\ analysisResult = Null /\ error = Null /\ call = Null
    /\ IdleImport /\ IdleSummary
    /\ store = records /\ ops = <<StoreOp("getAll", Null)>> /\ calls = <<>>
    /\ generated = 0 /\ rethrown = {} /\ isLoaded = FALSE

InitJournal == \E records \in JournalStores : Mounted(records)

NextJournal ==
    \/ StoreSettles
    \/ PromiseContinues
    \/ AddTrade
    \/ DeleteTrade
    \/ DeleteMultipleTrades
    \/ UpdateTrade
    \/ ImportTrades

SpecJournal == InitJournal /\ [][NextJournal]_vars


(***************************************************************************)
(* THE JOURNAL IN MEMORY AND IN THE STORE.                                  *)
(***************************************************************************)
IdsOf(tradeList) == {tradeList[i].id : i \in 1..Len(tradeList)}

\* C23: whatever was added, updated, deleted or imported, no two trades of
\* the in-memory list have the same id (an update never carries an id, so it
\* leaves the id of its trade alone).
C23_IdsUnique ==
    \A i \in 1..Len(trades) : \A j \in 1..Len(trades) :
        i # j => trades[i].id # trades[j].id

\* C24: after the load and whatever was done since, the in-memory list is
\* newest first by date then time, the empty time counting as the empty
\* string, so that trades[0] is a most recent trade.
C24_NewestFirst ==
    \A i \in 1..Len(trades) : \A j \in (i + 1)..Len(trades) :
        LocaleCompare(DateTimeKey(trades[i]), DateTimeKey(trades[j])) >= 0

\* C25: whenever no store operation is under way, the trades in memory are
\* the trades of the store.
C25_MemoryIsStore ==
    ops = <<>> => Elements(trades) = store


\* a step in which the then or the catch of the oldest promise runs
CallbackStep ==
    /\ ops # <<>> /\ Head(ops).status # "pending"
    /\ Len(calls') = Len(calls)

\* a step in which updateTrade is called for an id the list does not hold
UnknownUpdateStep ==
    /\ Len(calls') = Len(calls) + 1
    /\ calls'[Len(calls')].name = "updateTrade"
    /\ calls'[Len(calls')].originalTrade = Null

MemoryFollowsStore ==
    /\ trades' # trades => CallbackStep /\ Head(ops).status = "ok"
    /\ CallbackStep /\ Head(ops).kind \in {"add", "delete", "update"}
         /\ Head(ops).status = "failed" => trades' = trades
    /\ CallbackStep /\ Head(ops).kind = "update" /\ Head(ops).status = "failed"
         => Head(ops).arg.trade.id \in rethrown'
    /\ UnknownUpdateStep => Len(ops') = Len(ops) /\ store' = store /\ trades' = trades

\* C26: addTrade, deleteTrade and updateTrade change the in-memory list only
\* in the callback of a store request that succeeded; when the request failed
\* the list stays as it was, and updateTrade rejects to its caller; an
\* updateTrade for an id that is not in the list starts no store operation
\* and changes nothing.
C26_MemoryFollowsStore == [][MemoryFollowsStore]_vars

C26_Witness ==
    /\ rethrown # {}
    /\ \E k \in 1..Len(calls) :
          calls[k].name = "updateTrade" /\ calls[k].originalTrade = Null
    /\ ops = <<>>

\* two calls of updateTrade for one trade, both made with the list as it was
\* before either took effect, each changing another field, both fulfilled
TwoUpdatesOfOneTrade ==
    /\ ops = <<>> /\ Len(calls) = 2
    /\ calls[1].name = "updateTrade" /\ calls[2].name = "updateTrade"
    /\ calls[1].tradeId = calls[2].tradeId
    /\ calls[1].originalTrade # Null
    /\ calls[1].originalTrade = calls[2].originalTrade
    /\ DOMAIN calls[1].updates # DOMAIN calls[2].updates
    /\ calls[1].tradeId \notin rethrown

HasChanges(trade, updates) == \A k \in DOMAIN updates : trade[k] = updates[k]

\* C27: after two updateTrade calls for the same trade made before the list
\* was rendered again, each changing a different field, the trade in memory
\* and the trade in the store carry both changes.
C27_BothChangesKept ==
    TwoUpdatesOfOneTrade =>
        /\ \A i \in 1..Len(trades) :
              trades[i].id = calls[1].tradeId =>
                  /\ HasChanges(trades[i], calls[1].updates)
                  /\ HasChanges(trades[i], calls[2].updates)
        /\ \A t \in store :
              t.id = calls[1].tradeId =>
                  /\ HasChanges(t, calls[1].updates)
                  /\ HasChanges(t, calls[2].updates)


(***************************************************************************)
(* THE LOAD OF A STORE WITH LEGACY TAGS.                                    *)
(***************************************************************************)
MaxLegacyTags == 2

LegacyTagStrings ==
    {"strategy:Breakout", "strategy:a:b", "strategy:", "custom:x", "confidence:High",
     "confidence:Low", "emotions:calm", "mood:ok", "plain", ":x", ""}

RECURSIVE LegacyTagLists(_)
LegacyTagLists(n) ==
    IF n = 0 THEN {<<>>}
    ELSE LegacyTagLists(n - 1)
         \cup {Append(tags, tag) : tags \in {l \in LegacyTagLists(n - 1) : Len(l) = n - 1},
                                   tag \in LegacyTagStrings}

\* stores whose first trade has the legacy tags, alone or beside a trade of
\* the present form, and a store without legacy tags
LegacyStores ==
    {{[TradeA EXCEPT !.tags = ArrayTags(tags)]} \cup others :
        tags \in LegacyTagLists(MaxLegacyTags), others \in {{}, {TradeB}}}
    \cup {{TradeA, TradeB}}

InitLoad == \E records \in LegacyStores : Mounted(records)

NextLoad == StoreSettles \/ PromiseContinues

SpecLoad == InitLoad /\ [][NextLoad]_vars

\* ---- the claim, stated on the text of the tags ----
KnownCategoryNames == {"strategy", "trigger", "session", "mistakes", "confidence", "emotions"}

\* where a legacy tag belongs: under the category before its first colon with
\* the text after it as the value, when that category is known and the text is
\* not empty; under custom, whole, otherwise
TagPlace(tag, colon) ==
    IF colon > 0 /\ colon < Len(tag) /\ SubSeq(tag, 1, colon - 1) \in KnownCategoryNames
    THEN [category |-> SubSeq(tag, 1, colon - 1), value |-> SubSeq(tag, colon + 1, Len(tag))]
    ELSE [category |-> "custom", value |-> tag]

RECURSIVE PlacedUnder(_, _)
PlacedUnder(tags, category) ==
    IF tags = <<>> THEN <<>>
    ELSE IF TagPlace(Head(tags), IndexIn(Head(tags), ":")).category = category
    THEN <<TagPlace(Head(tags), IndexIn(Head(tags), ":")).value>> \o PlacedUnder(Tail(tags), category)
    ELSE PlacedUnder(Tail(tags), category)

\* the values a category must hold: all that were placed under it, in order;
\* of confidence, the last one only
ExpectedValues(tags, category) ==
    IF category = "confidence" /\ PlacedUnder(tags, category) # <<>>
    THEN <<PlacedUnder(tags, category)[Len(PlacedUnder(tags, category))]>>
    ELSE PlacedUnder(tags, category)

ConvertedFrom(converted, trade) ==
    IF trade.tags.array
    THEN /\ ~converted.tags.array
         /\ \A k \in DOMAIN trade : k # "tags" => converted[k] = trade[k]
         /\ \A category \in KnownCategoryNames \cup {"custom"} :
               CategoryValues(converted.tags.items, category)
                   = ExpectedValues(trade.tags.items, category)
         /\ \A i \in 1..Len(converted.tags.items) :
               /\ converted.tags.items[i].category \in KnownCategoryNames \cup {"custom"}
               /\ converted.tags.items[i].values # <<>>
               /\ \A j \in 1..Len(converted.tags.items) :
                     i # j => converted.tags.items[i].category # converted.tags.items[j].category
    ELSE converted = trade

\* the write-back of the converted list is under way, the store as it was read
WritingBack == ops # <<>> /\ Head(ops).kind = "migrate" /\ Head(ops).status = "pending"

\* C28: the load converts each legacy tag array: a tag category:value with a
\* known category and a non-empty value goes under that category as value,
\* every other tag goes under custom unchanged, none is dropped but an
\* earlier confidence; trades of the object form stay as they are.  When a
\* trade was converted the converted list is in the store before the list in
\* memory is set.
C28_LegacyTagsConverted ==
    /\ WritingBack =>
          /\ trades = <<>>
          /\ Len(Head(ops).arg) = Cardinality(store)
          /\ \A i \in 1..Len(Head(ops).arg) :
                ConvertedFrom(Head(ops).arg[i], getAllTrades(store)[i])
    /\ trades # <<>> =>
          /\ \A i \in 1..Len(trades) : ~trades[i].tags.array /\ trades[i] \in store
          /\ Len(trades) = Cardinality(store)
    /\ ops = <<>> /\ (\E t \in store : t.tags.array) => trades = <<>>

C28_Witness ==
    /\ ops = <<>> /\ isLoaded
    /\ \E i \in 1..Len(trades) :
          /\ CategoryValues(trades[i].tags.items, "confidence") = <<"Low">>
          /\ CategoryValues(trades[i].tags.items, "custom") = <<"mood:ok">>


(***************************************************************************)
(* THE LIFE OF ONE handleAnalyze: the enrichment call settles.              *)
(***************************************************************************)
\* the awaited call of the service resolves or rejects in the end
SpecSettling ==
    Spec /\ WF_vars(ServiceRefuses \/ RequestRejected \/ ReplyUnparseable \/ ReplyParsed)

InProgress == call # Null /\ call[1].reply = Null

Ended ==
    /\ call # Null /\ call[1].reply # Null
    /\ ~isLoading
    /\ (analysisResult # Null) # (error # Null)

\* C29: while a handleAnalyze is in progress isLoading is true and both
\* analysisResult and error are null; once its enrichment call has resolved or
\* rejected it ends with isLoading false and exactly one of analysisResult
\* and error set.
C29_AnalyzeEnds ==
    /\ [](InProgress => isLoading /\ analysisResult = Null /\ error = Null)
    /\ [](call # Null /\ call[1].reply # Null => Ended)
    /\ (InProgress ~> Ended)

C29_Witness ==
    /\ Ended
    /\ call[1].reply[1].outcome = "rejected"
    /\ analysisResult # Null /\ error = Null


(***************************************************************************)
(* THE DASHBOARD SUMMARY: TagPerformance.                                   *)
(***************************************************************************)
SUMMARY_MIN_TRADES == 3
SUMMARY_TOP == 3

\* Object.values(trade.tags).flat(), the empty strings passed over
RECURSIVE TagValues(_)
TagValues(entries) ==
    IF entries = <<>> THEN <<>>
    ELSE SelectSeq(Head(entries).values, LAMBDA tag : tag # "") \o TagValues(Tail(entries))

\* every (tag, pnl) the forEach loops of the summary visit, in their order
RECURSIVE SummaryOccurrences(_)
SummaryOccurrences(ts) ==
    IF ts = <<>> THEN <<>>
    ELSE [k \in 1..Len(TagValues(Head(ts).tags)) |->
             [tag |-> TagValues(Head(ts).tags)[k], pnl |-> Head(ts).pnl]]
         \o SummaryOccurrences(Tail(ts))

SummaryStat(occurrences, tag) ==
    [tag |-> tag,
     totalPnl |-> SumPnl(SelectSeq(occurrences, LAMBDA o : o.tag = tag)),
     tradeCount |-> Len(SelectSeq(occurrences, LAMBDA o : o.tag = tag)),
     winCount |-> Len(Winners(SelectSeq(occurrences, LAMBDA o : o.tag = tag))),
     winRate |-> Percentage(Len(Winners(SelectSeq(occurrences, LAMBDA o : o.tag = tag))),
                            Len(SelectSeq(occurrences, LAMBDA o : o.tag = tag)))]

\* the entries of statsMap in insertion order, with their win rate
SummaryStats(occurrences, keys) ==
    [k \in 1..Len(keys) |-> SummaryStat(occurrences, keys[k])]

\* the first useMemo of TagPerformance
tagStats(ts) ==
    SelectSeq(SummaryStats(SummaryOccurrences(ts),
                           FirstOccurrences([k \in 1..Len(SummaryOccurrences(ts)) |->
                                                SummaryOccurrences(ts)[k].tag], {})),
              LAMBDA s : s.tradeCount >= SUMMARY_MIN_TRADES)

TotalPnlDescending(s) ==
    ArraySort(s, [i \in 1..Len(s), j \in 1..Len(s) |-> s[j].totalPnl - s[i].totalPnl])
TotalPnlRising(s) ==
    ArraySort(s, [i \in 1..Len(s), j \in 1..Len(s) |-> s[i].totalPnl - s[j].totalPnl])

\* the second useMemo of TagPerformance
TopTags(stats) ==
    [topProfitable |->
         SliceFirst(TotalPnlDescending(SelectSeq(stats, LAMBDA s : s.totalPnl > 0)), SUMMARY_TOP),
     topUnprofitable |->
         SliceFirst(TotalPnlRising(SelectSeq(stats, LAMBDA s : s.totalPnl < 0)), SUMMARY_TOP)]

TagPerformance(ts) == TopTags(tagStats(ts))

\* trades naming one value under two categories
BreakoutBothWays == <<TagEntry("strategy", <<"Breakout">>), TagEntry("custom", <<"Breakout">>)>>
CustomBreakout == <<TagEntry("custom", <<"Breakout">>)>>
TwiceNamedKinds ==
    {Trade(1, <<9, 30>>, 50, Breakout), Trade(1, <<9, 30>>, 20, CustomBreakout),
     Trade(1, <<9, 30>>, -30, CustomBreakout), Trade(1, <<9, 30>>, 40, BreakoutBothWays)}
TwiceNamedLists == UNION {[1..n -> TwiceNamedKinds] : n \in 0..(MaxTaggedTrades + 1)}

SummaryLists == ShortTaggedLists \cup SharedTagLists \cup TwiceNamedLists

InitSummary ==
    /\ trades \in SummaryLists
    /\ pc = "ready"
    /\ report = Null
    /\ streak = Null /\ gradedMetrics = Null /\ grade = Null
    /\ IdleView

\* the dashboard renders TagPerformance with the trades
RenderTagPerformance ==
    /\ tagSummary = Null
    /\ tagSummary' = Some(TagPerformance(trades))
    /\ UNCHANGED <<file, imported, store, ops, calls, generated, rethrown, isLoaded,
                   circadian, trades, pc, report, streak, gradedMetrics, grade,
                   isLoading, analysisResult, error, call>>

NextSummary == AnalyzeOffline \/ RenderTagPerformance

SpecSummary == InitSummary /\ [][NextSummary]_vars

\* the entry of the summary is the entry of the report without its category
SameTagStat(summarized, reported) ==
    /\ summarized.tag = formatTag(reported.tag)
    /\ summarized.totalPnl = reported.totalPnl
    /\ summarized.tradeCount = reported.tradeCount
    /\ summarized.winRate = reported.winRate

FirstOfReport(summarized, reported) ==
    /\ Len(summarized) = Min(SUMMARY_TOP, Len(reported))
    /\ \A k \in 1..Len(summarized) :
          k <= Len(reported) /\ SameTagStat(summarized[k], reported[k])

\* C30: the lists of the dashboard summary are the first three entries of the
\* lists of the report's tagPerformance, with the same totalPnl, tradeCount
\* and winRate once the category prefix of the tag is removed.
C30_SummaryAgreesWithReport ==
    report # Null /\ tagSummary # Null =>
        /\ FirstOfReport(tagSummary[1].topProfitable, report[1].tagPerformance.profitable)
        /\ FirstOfReport(tagSummary[1].topUnprofitable, report[1].tagPerformance.unprofitable)

====
